---- MODULE Spec2Model ----
(***************************************************************************)
(* A model of the semantic middle-end of the Fyg compiler: the scope tree  *)
(* (src/src/scope.rs), the constraint collector (src/src/constraints.rs),  *)
(* the unifier (src/src/analyze.rs), the module driver                     *)
(* (src/src/compiler.rs, src/src/main.rs) and the panics of the Go emitter *)
(* (src/src/codegen.rs).                                                   *)
(*                                                                         *)
(* Four specifications are given over the same variables:                  *)
(*   Spec         a client calling the public operations of one ScopeTree  *)
(*                in any order with inputs drawn from small sets;          *)
(*   PipeSpec     the per-module pipeline of Compiler::process_module      *)
(*                (bind, collect, unify each constraint,                   *)
(*                apply_substitutions) on a module drawn from a bounded    *)
(*                family of programs;                                      *)
(*   TypeSpec     a client that binds type declarations and then calls     *)
(*                resolve_type and apply_substitutions;                    *)
(*   CompileSpec  main and Compiler::compile over a module map: the        *)
(*                recursion of process_module through the imports.         *)
(***************************************************************************)
EXTENDS Integers, Sequences, FiniteSets, TLC

VARIABLES
    tree,         \* the ScopeTree: scopes, next_type_var, next_fn (+ panic flag)
    last,         \* Spec: the last operation called and what it returned
    pc,           \* PipeSpec: position inside process_module
    parsed,       \* PipeSpec: the Program as the parser returned it
    program,      \* PipeSpec: the bound Program
    constraints,  \* PipeSpec: ConstraintCollector.constraints still to unify
    error,        \* PipeSpec: the AnalyzeError returned by unify, if any
    exit_code,    \* PipeSpec, CompileSpec: the exit status of the process
    returned,     \* TypeSpec: the value the last call returned
    module_map,   \* CompileSpec: ModuleMap.modules
    stack,        \* CompileSpec: the activations of process_module
    build         \* CompileSpec: the files written under ./build

vars == <<tree, last, pc, parsed, program, constraints, error, exit_code,
          returned, module_map, stack, build>>

-----------------------------------------------------------------------------
(* Bounds of the model.                                                    *)

\* Spec: the arena is not grown beyond this many scopes.
MaxScopes == 4
\* Spec: create_type_var is not called once this many variables exist.
MaxTypeVars == 2
\* Spec: no more than this many operations are called on one tree.
MaxCalls == 3
\* PipeSpec: functions of the program family take up to this many parameters,
\* and calls pass up to this many arguments.
MaxParams == 2
\* Recursion budget of resolve_type and unify; running out of it models the
\* stack overflow of an unbounded recursion.
MaxDepth == 8

-----------------------------------------------------------------------------
(* ast.rs: TypeExpr.  Every type expression is a record with a tag k.      *)

TNumber  == [k |-> "Number"]
TString  == [k |-> "String"]
TBoolean == [k |-> "Boolean"]
TVoid    == [k |-> "Void"]
TypeRef(id) == [k |-> "TypeRef", id |-> id]
\* InferenceRequired(Some(id)); id is a TypeIdentifier, a sequence of segments
InferenceRequired(id) == [k |-> "InferenceRequired", id |-> id]
FunctionDefinition(id, params, ret) ==
    [k |-> "FunctionDefinition", type_identifier |-> id,
     parameters |-> params, return_type |-> ret]
FunctionCall(args, ret, callee) ==
    [k |-> "FunctionCall", args |-> args, return_type |-> ret, callee |-> callee]
RecordType(members) == [k |-> "Record", members |-> members]
ExternPackage(name, members) ==
    [k |-> "ExternPackage", package_name |-> name, members |-> members]
\* ImportRef(joined module name, indexes of the modules of that name)
ImportRef(name, module_indexes) ==
    [k |-> "ImportRef", name |-> name, module_indexes |-> module_indexes]
\* Option::None where a TypeExpr is optional (a missing annotation)
NoType == [k |-> "None"]
\* what resolve_type yields when its recursion never ends (stack overflow)
Diverges == [k |-> "Diverges"]

\* identifier.name.join(".")
RECURSIVE Join(_)
Join(name) ==
    IF Len(name) = 0 THEN ""
    ELSE IF Len(name) = 1 THEN name[1]
    ELSE name[1] \o "." \o Join(Tail(name))

-----------------------------------------------------------------------------
(* scope.rs: Scope, ScopeTree.  Scope index i is scopes[i + 1].            *)

\* Option::None of Scope.parent
NoParent == -1
NoPanic == ""
EmptyMap == [n \in {} |-> n]

NewScope(parent) ==
    [value_symbols |-> EmptyMap, type_symbols |-> EmptyMap,
     parent |-> parent, children |-> <<>>]

NewScopeTree ==
    [scopes |-> <<NewScope(NoParent)>>, next_type_var |-> 0, next_fn |-> 0,
     panic |-> NoPanic]

ScopeAt(t, i) == t.scopes[i + 1]
HasScope(t, i) == i \in 0 .. (Len(t.scopes) - 1)
ScopeIndexes(t) == 0 .. (Len(t.scopes) - 1)

Panic(t, msg) == [t EXCEPT !.panic = msg]
Panicked(t) == t.panic # NoPanic

Insert(map, key, val) ==
    [n \in (DOMAIN map) \cup {key} |-> IF n = key THEN val ELSE map[n]]

\* a mutant of NewChildScope: the child is not linked into the parent
NewChildScopeUnlinked(t, parent_index) ==
    [t EXCEPT !.scopes = Append(t.scopes, NewScope(parent_index))]

NewChildScope(t, parent_index) ==
    LET child_index == Len(t.scopes)
        pushed == Append(t.scopes, NewScope(parent_index))
    IN  IF parent_index \in 0 .. (Len(pushed) - 1)
        THEN [t EXCEPT !.scopes =
                 [pushed EXCEPT ![parent_index + 1].children =
                     Append(pushed[parent_index + 1].children, child_index)]]
        ELSE Panic([t EXCEPT !.scopes = pushed], "Could not find parent by index")

NewProgramScope(t) == NewChildScope(t, 0)

NotFound == [found |-> FALSE]
Found(sym) == [found |-> TRUE, symbol |-> sym]

RECURSIVE FindTypeSymbolFrom(_, _, _)
FindTypeSymbolFrom(t, scope_index, joined_name) ==
    LET current_scope == ScopeAt(t, scope_index)
    IN  IF joined_name \in DOMAIN current_scope.type_symbols
        THEN Found(current_scope.type_symbols[joined_name])
        ELSE IF current_scope.parent # NoParent
             THEN FindTypeSymbolFrom(t, current_scope.parent, joined_name)
             ELSE NotFound

FindTypeSymbol(t, scope_index, identifier) ==
    FindTypeSymbolFrom(t, scope_index, Join(identifier))

RECURSIVE FindValueSymbol(_, _, _)
FindValueSymbol(t, scope_index, identifier) ==
    LET current_scope == ScopeAt(t, scope_index)
    IN  IF identifier \in DOMAIN current_scope.value_symbols
        THEN Found(current_scope.value_symbols[identifier])
        ELSE IF current_scope.parent # NoParent
             THEN FindValueSymbol(t, current_scope.parent, identifier)
             ELSE NotFound

Symbol(name, type_expr, scope_index) ==
    [name |-> name, type_expr |-> type_expr, scope_index |-> scope_index]

CreateTypeSymbol(t, scope_index, identifier, type_expr) ==
    LET joined_name == Join(identifier)
    IN  IF FindTypeSymbol(t, scope_index, identifier).found
        THEN Panic(t, "Cannot redeclare type symbol")
        ELSE [t EXCEPT !.scopes[scope_index + 1].type_symbols =
                 Insert(@, joined_name, Symbol(joined_name, type_expr, scope_index))]

\* a mutant of CreateValueSymbol: no redeclaration check
CreateValueSymbolUnchecked(t, scope_index, identifier, type_expr) ==
    [t EXCEPT !.scopes[scope_index + 1].value_symbols =
        Insert(@, identifier, Symbol(identifier, type_expr, scope_index))]

CreateValueSymbol(t, scope_index, identifier, type_expr) ==
    IF FindValueSymbol(t, scope_index, identifier).found
    THEN Panic(t, "Cannot redeclare value symbol")
    ELSE [t EXCEPT !.scopes[scope_index + 1].value_symbols =
             Insert(@, identifier, Symbol(identifier, type_expr, scope_index))]

\* format!("t{}", self.next_type_var)
TypeVarName(n) == "t" \o ToString(n)
\* the TypeExpr the next call of create_type_var returns
NextTypeVar(t) == InferenceRequired(<<TypeVarName(t.next_type_var)>>)

\* a mutant of CreateTypeVar: next_type_var is not advanced
CreateTypeVarStale(t, scope_index) ==
    CreateTypeSymbol(t, scope_index, <<TypeVarName(t.next_type_var)>>, NextTypeVar(t))

CreateTypeVar(t, scope_index) ==
    CreateTypeSymbol([t EXCEPT !.next_type_var = @ + 1], scope_index,
                     <<TypeVarName(t.next_type_var)>>, NextTypeVar(t))

RECURSIVE UpdateTypeSymbolFrom(_, _, _, _)
UpdateTypeSymbolFrom(t, scope_index, joined_name, type_expr) ==
    LET current_scope == ScopeAt(t, scope_index)
    IN  IF joined_name \in DOMAIN current_scope.type_symbols
        THEN [t EXCEPT !.scopes[scope_index + 1].type_symbols[joined_name].type_expr =
                 type_expr]
        ELSE IF current_scope.parent # NoParent
             THEN UpdateTypeSymbolFrom(t, current_scope.parent, joined_name, type_expr)
             ELSE Panic(t, "got to root scope without finding symbol to update")

UpdateTypeSymbol(t, scope_index, identifier, type_expr) ==
    UpdateTypeSymbolFrom(t, scope_index, Join(identifier), type_expr)

\* a mutant of Chases: resolve_type no longer follows inference variables
ChasesTypeRefOnly(type_expr) == type_expr.k = "TypeRef"

\* the TypeExprs resolve_type looks up (the first match arm)
Chases(type_expr) == type_expr.k \in {"TypeRef", "InferenceRequired"}

\* a mutant of resolve_type: one lookup, the symbol's type is not resolved on
ResolveTypeOneStep(t, type_expr, scope_index, depth) ==
    IF Chases(type_expr) /\ FindTypeSymbol(t, scope_index, type_expr.id).found
    THEN FindTypeSymbol(t, scope_index, type_expr.id).symbol.type_expr
    ELSE type_expr

RECURSIVE ResolveTypeDepth(_, _, _, _)
ResolveTypeDepth(t, type_expr, scope_index, depth) ==
    IF depth = 0 THEN Diverges
    ELSE IF ~Chases(type_expr) THEN type_expr
    ELSE LET hit == FindTypeSymbol(t, scope_index, type_expr.id)
         IN  IF hit.found
             THEN IF hit.symbol.type_expr # type_expr
                  THEN ResolveTypeDepth(t, hit.symbol.type_expr, scope_index, depth - 1)
                  ELSE hit.symbol.type_expr
             ELSE LET parent == IF ScopeAt(t, scope_index).parent = NoParent
                                THEN 0 ELSE ScopeAt(t, scope_index).parent
                  IN  IF HasScope(t, scope_index) /\ parent # 0
                      THEN ResolveTypeDepth(t, type_expr, parent, depth - 1)
                      ELSE type_expr

ResolveType(t, type_expr, scope_index) ==
    ResolveTypeDepth(t, type_expr, scope_index, MaxDepth)

ApplySubstitutions(t) ==
    LET resolved(i, key) ==
            ResolveType(t, ScopeAt(t, i).value_symbols[key].type_expr, i)
        overflow == \E i \in ScopeIndexes(t) :
                       \E key \in DOMAIN ScopeAt(t, i).value_symbols :
                          resolved(i, key) = Diverges
    IN  IF overflow THEN Panic(t, "stack overflow")
        ELSE [t EXCEPT !.scopes =
                 [j \in DOMAIN t.scopes |->
                     [t.scopes[j] EXCEPT !.value_symbols =
                         [key \in DOMAIN t.scopes[j].value_symbols |->
                             [t.scopes[j].value_symbols[key] EXCEPT !.type_expr =
                                 resolved(j - 1, key)]]]]]

-----------------------------------------------------------------------------
(* constraints.rs: Constraint; analyze.rs: AnalyzeError, unify.            *)

Constraint(lhs, rhs, scope_index) ==
    [lhs |-> lhs, rhs |-> rhs, kind |-> "Equality", scope_index |-> scope_index]

AnalyzeError(message, lhs, rhs) == [message |-> message, lhs |-> lhs, rhs |-> rhs]
NoError == AnalyzeError("", NoType, NoType)

\* Result<(), AnalyzeError> of unify, with the scope tree as unify left it.
\* A panic inside unify is ok = FALSE with no error and tree.panic set.
UnifyOk(t) == [tree |-> t, ok |-> TRUE, error |-> NoError]
UnifyErr(t, e) == [tree |-> t, ok |-> FALSE, error |-> e]
UnifyPanic(t, msg) == [tree |-> Panic(t, msg), ok |-> FALSE, error |-> NoError]

\* the first three match arms of unify: (Number, Number), (String, String),
\* (Void, Void)
PrimitivesUnify(l, r) ==
    \/ l.k = "Number" /\ r.k = "Number"
    \/ l.k = "String" /\ r.k = "String"
    \/ l.k = "Void" /\ r.k = "Void"

\* a mutant of ParamCountError: the arity check reports the call-site message
ParamCountErrorAsArgs(l, r) == AnalyzeError("Wrong amount of args provided", l, r)

ParamCountError(l, r) == AnalyzeError("Param counts don't match", l, r)

ArgCountError(l, r) == AnalyzeError("Wrong amount of args provided", l, r)

\* a mutant of MismatchError: the two sides are attached the wrong way round
MismatchErrorSwapped(l, r) == AnalyzeError("Types don't match", r, l)

MismatchError(l, r) == AnalyzeError("Types don't match", l, r)

\* a mutant of BindVariable: the solved type is not stored
BindVariableDropped(t, scope_index, type_iden, type_expr) == t

\* the InferenceRequired arm of unify
BindVariable(t, scope_index, type_iden, type_expr) ==
    UpdateTypeSymbol(t, scope_index, type_iden, type_expr)

RECURSIVE UnifyDepth(_, _, _)
RECURSIVE UnifyEach(_, _, _, _, _)

UnifyEachRest(first, lefts, rights, scope_index, depth) ==
    IF ~first.ok THEN first
    ELSE UnifyEach(first.tree, Tail(lefts), Tail(rights), scope_index, depth)

\* the for loops over parameters (or arguments): unify lefts[i] with rights[i]
\* in order, stopping at the first failure
UnifyEach(t, lefts, rights, scope_index, depth) ==
    IF Len(lefts) = 0 THEN UnifyOk(t)
    ELSE IF Len(rights) = 0 THEN UnifyPanic(t, "Right param at index")
    ELSE UnifyEachRest(
             UnifyDepth(t, Constraint(Head(lefts), Head(rights), scope_index), depth),
             lefts, rights, scope_index, depth)

\* after the parameters (or arguments): the return types are unified
UnifyReturnTypes(params, resolve_left, resolve_right, scope_index, depth) ==
    IF ~params.ok THEN params
    ELSE UnifyDepth(params.tree,
                    Constraint(resolve_left.return_type, resolve_right.return_type,
                               scope_index),
                    depth)

\* the InferenceRequired arm returns Ok(()) once the symbol is updated
UnifyBound(updated) ==
    IF Panicked(updated) THEN [tree |-> updated, ok |-> FALSE, error |-> NoError]
    ELSE UnifyOk(updated)

\* the match on (resolve_left, resolve_right)
UnifyResolved(t, constraint, resolve_left, resolve_right, depth) ==
    LET scope_index == constraint.scope_index
    IN  IF resolve_left = Diverges \/ resolve_right = Diverges
        THEN UnifyPanic(t, "stack overflow")
        ELSE IF PrimitivesUnify(resolve_left, resolve_right) THEN UnifyOk(t)
        ELSE IF resolve_left.k = "InferenceRequired"
        THEN UnifyBound(BindVariable(t, scope_index, resolve_left.id, resolve_right))
        ELSE IF resolve_left.k = "FunctionDefinition"
                /\ resolve_right.k = "FunctionDefinition"
        THEN IF Len(resolve_left.parameters) # Len(resolve_right.parameters)
             THEN UnifyErr(t, ParamCountError(resolve_left, resolve_right))
             ELSE UnifyReturnTypes(
                      UnifyEach(t, resolve_left.parameters, resolve_right.parameters,
                                scope_index, depth - 1),
                      resolve_left, resolve_right, scope_index, depth - 1)
        ELSE IF resolve_right.k = "InferenceRequired"
        THEN UnifyDepth(t, Constraint(constraint.rhs, constraint.lhs, scope_index),
                        depth - 1)
        ELSE IF resolve_left.k = "FunctionCall"
                /\ resolve_right.k = "FunctionDefinition"
        THEN IF Len(resolve_left.args) # Len(resolve_right.parameters)
             THEN UnifyErr(t, ArgCountError(resolve_left, resolve_right))
             ELSE UnifyReturnTypes(
                      UnifyEach(t, resolve_left.args, resolve_right.parameters,
                                scope_index, depth - 1),
                      resolve_left, resolve_right, scope_index, depth - 1)
        ELSE UnifyErr(t, MismatchError(resolve_left, resolve_right))

UnifyDepth(t, constraint, depth) ==
    IF depth = 0 THEN UnifyPanic(t, "stack overflow")
    ELSE UnifyResolved(t, constraint,
                       ResolveType(t, constraint.lhs, constraint.scope_index),
                       ResolveType(t, constraint.rhs, constraint.scope_index),
                       depth)

Unify(t, constraint) == UnifyDepth(t, constraint, MaxDepth)

-----------------------------------------------------------------------------
(* ast.rs: Expr, BlockStatement, TopStatement, Program.                    *)

\* Option::None of a scope field, and of a FunctionDefinition's identifier
NoScope == -1
NoIdentifier == ""

ENumber(text) == [k |-> "Number", text |-> text]
EString(text) == [k |-> "String", text |-> text]
EBoolean(b) == [k |-> "Boolean", value |-> b]
EVoid == [k |-> "Void"]
\* ValueReference(MixedIdentifier::Identifier(name))
ValueReference(name) == [k |-> "ValueReference", name |-> name]
\* ValueReference(MixedIdentifier::TypeIdentifier(..)): a capitalised name,
\* such as the name of an imported module; name is its first segment
TypeValueReference(name) ==
    [k |-> "ValueReference", name |-> name, type_identifier |-> TRUE]
IsTypeIdentifier(expr) == "type_identifier" \in DOMAIN expr
DotCall(callee, member_identifier) ==
    [k |-> "DotCall", callee |-> callee, member_identifier |-> member_identifier]
FunctionParameter(identifier, type_expr) ==
    [identifier |-> identifier, type_expr |-> type_expr]
FunctionDefinitionExpr(parameters, return_type, body, scope, identifier) ==
    [k |-> "FunctionDefinition", parameters |-> parameters,
     return_type |-> return_type, body |-> body, scope |-> scope,
     identifier |-> identifier]
FunctionCallExpr(callee, args) ==
    [k |-> "FunctionCall", callee |-> callee, args |-> args]
Binary(left, op, right) == [k |-> "Binary", left |-> left, op |-> op, right |-> right]
BlockExpression(statements, scope) ==
    [k |-> "BlockExpression", statements |-> statements, scope |-> scope]

ConstDec(identifier, type_annotation, value) ==
    [k |-> "ConstDec", identifier |-> identifier,
     type_annotation |-> type_annotation, value |-> value]
\* TypeDec; identifier and type_vars are TypeIdentifiers
TypeDec(identifier, type_vars, type_val) ==
    [k |-> "TypeDec", identifier |-> identifier, type_vars |-> type_vars,
     type_val |-> type_val]
Return(expr) == [k |-> "Return", expr |-> expr]
ExprStatement(expr) == [k |-> "Expr", expr |-> expr]

\* PackageImport; aliased_name "" is None
NoAlias == ""
PackageImport(package_name, aliased_name) ==
    [package_name |-> package_name, aliased_name |-> aliased_name]
ImportingProgram(imports, statements, scope) ==
    [imports |-> imports, statements |-> statements, scope |-> scope]
\* a Program without imports
Program(statements, scope) == ImportingProgram(<<>>, statements, scope)

\* parser.rs: parse_fn_definition leaves scope and identifier unset
ParsedFn(parameters, return_type, body) ==
    FunctionDefinitionExpr(parameters, return_type, body, NoScope, NoIdentifier)

\* parser.rs: parse_type_expr turns the name of a type annotation into a
\* TypeExpr: String and Void are the only names it makes primitives of
ParseTypeExpr(name) ==
    IF name = "String" THEN TString
    ELSE IF name = "Void" THEN TVoid
    ELSE TypeRef(<<name>>)

-----------------------------------------------------------------------------
(* compiler.rs: Module and ModuleMap.  The scope tree shares the module    *)
(* map with the compiler (an Arc), so its operations read the variable.    *)
(* Modules are indexed from 0.                                             *)

\* Module.program: None
NoProgram == [k |-> "None"]
\* what module.parser.parse() returns for a file that does not parse
ParserError == [k |-> "ParserError"]
\* Module; parser stands for the tokens: what parse() returns from them
Module(path, module_name, exports, parser) ==
    [path |-> path, module_name |-> module_name, exports |-> exports,
     parser |-> parser, program |-> NoProgram]
ModuleAt(i) == module_map[i + 1]
ModuleIndexes == 0 .. (Len(module_map) - 1)

\* index_by_name.get(name): the indexes in the order the modules were added
RECURSIVE ModulesNamedFrom(_, _)
ModulesNamedFrom(name, i) ==
    IF i \notin ModuleIndexes THEN <<>>
    ELSE (IF ModuleAt(i).module_name = name THEN <<i>> ELSE <<>>)
             \o ModulesNamedFrom(name, i + 1)
\* find_modules_by_name; the empty sequence stands for None
FindModulesByName(name) == ModulesNamedFrom(name, 0)

\* resolve_import_member_type: the first module of that name that exports
\* the member
\* a mutant of FirstExporting: the first module of the name, whatever it
\* exports
FirstDeclaring(modules, member_name) ==
    IF modules = <<>> THEN -1 ELSE Head(modules)

RECURSIVE FirstExporting(_, _)
FirstExporting(modules, member_name) ==
    IF modules = <<>> THEN -1
    ELSE IF member_name \in ModuleAt(Head(modules)).exports THEN Head(modules)
    ELSE FirstExporting(Tail(modules), member_name)

\* resolve_import_member_type: what it returns (NoType for None), or the
\* panic of one of its expects
ImportMember(panic, type_expr) == [panic |-> panic, type_expr |-> type_expr]
ResolveImportMemberIn(t, resolved_module_index, member_name) ==
    IF resolved_module_index = -1 THEN ImportMember(NoPanic, NoType)
    ELSE IF ModuleAt(resolved_module_index).program = NoProgram
    THEN ImportMember(NoPanic, NoType)
    ELSE IF ~FindValueSymbol(t, ModuleAt(resolved_module_index).program.scope,
                             member_name).found
    THEN ImportMember("type symbol", NoType)
    ELSE ImportMember(NoPanic,
                      FindValueSymbol(t, ModuleAt(resolved_module_index).program.scope,
                                      member_name).symbol.type_expr)
ResolveImportMemberType(t, module_name, member_name) ==
    IF FindModulesByName(module_name) = <<>> THEN ImportMember("module by name", NoType)
    ELSE ResolveImportMemberIn(
             t, FirstExporting(FindModulesByName(module_name), member_name),
             member_name)

-----------------------------------------------------------------------------
(* scope.rs: the binder.  Every bind operation returns the scope tree it   *)
(* leaves and the bound node; once the tree has panicked nothing more runs.*)
(* An operation is written as a chain of steps, each step an operator that *)
(* takes what the steps before it produced.                                *)

Try(t, next) == IF Panicked(t) THEN t ELSE next
Bound(t, node) == [tree |-> t, node |-> node]
BoundAll(t, nodes) == [tree |-> t, nodes |-> nodes]
\* the Vec collected from a map: the first node in front of the others
BoundCons(first, rest) == BoundAll(rest.tree, <<first.node>> \o rest.nodes)

\* annotation.unwrap_or(self.create_type_var(scope_index)): the argument of
\* unwrap_or is evaluated whether or not the annotation is there
UnwrapOrTypeVar(t, scope_index, annotation) ==
    [tree |-> CreateTypeVar(t, scope_index),
     type_expr |-> IF annotation # NoType THEN annotation ELSE NextTypeVar(t)]

RECURSIVE BindExpression(_, _, _)
RECURSIVE BindExpressions(_, _, _)
RECURSIVE BindStatements(_, _, _)
RECURSIVE BindParameters(_, _, _, _)

\* bind_const_dec: self.create_value_symbol(scope_index, name, const_type)
BindConstDecSymbol(t, scope_index, const_dec, const_type) ==
    Try(t, CreateValueSymbol(t, scope_index, const_dec.identifier, const_type))

\* bind_const_dec: the ConstDec rebuilt around the bound value
BindConstDecValue(const_dec, value) ==
    Bound(value.tree, [const_dec EXCEPT !.value = value.node])

BindConstDec(t, scope_index, const_dec) ==
    BindConstDecValue(
        const_dec,
        BindExpression(
            IF const_dec.type_annotation # NoType
            THEN BindConstDecSymbol(t, scope_index, const_dec,
                                    const_dec.type_annotation)
            ELSE BindConstDecSymbol(CreateTypeVar(t, scope_index), scope_index,
                                    const_dec, NextTypeVar(t)),
            scope_index, const_dec.value))

\* bind_type_dec: every type variable becomes a type symbol of the new scope
RECURSIVE BindTypeVars(_, _, _)
BindTypeVars(t, type_dec_scope_index, type_vars) ==
    IF type_vars = <<>> \/ Panicked(t) THEN t
    ELSE BindTypeVars(CreateTypeSymbol(t, type_dec_scope_index, Head(type_vars),
                                       InferenceRequired(Head(type_vars))),
                      type_dec_scope_index, Tail(type_vars))

\* bind_type_dec: a child scope is made when the declaration has type variables
BindTypeDecScope(declared, scope_index, type_dec) ==
    IF Panicked(declared) \/ type_dec.type_vars = <<>> THEN declared
    ELSE BindTypeVars(NewChildScope(declared, scope_index), Len(declared.scopes),
                      type_dec.type_vars)

BindTypeDec(t, scope_index, type_dec) ==
    Bound(BindTypeDecScope(CreateTypeSymbol(t, scope_index, type_dec.identifier,
                                            type_dec.type_val),
                           scope_index, type_dec),
          type_dec)

\* bind_statement: the Return or Expr statement rebuilt around its expression
BindStatementExpr(statement, expr) ==
    Bound(expr.tree, [statement EXCEPT !.expr = expr.node])

BindStatement(t, scope_index, statement) ==
    IF Panicked(t) THEN Bound(t, statement)
    ELSE IF statement.k = "ConstDec" THEN BindConstDec(t, scope_index, statement)
    ELSE IF statement.k = "TypeDec" THEN BindTypeDec(t, scope_index, statement)
    ELSE BindStatementExpr(statement, BindExpression(t, scope_index, statement.expr))

BindStatementsRest(first, scope_index, statements) ==
    BoundCons(first, BindStatements(first.tree, scope_index, Tail(statements)))

BindStatements(t, scope_index, statements) ==
    IF statements = <<>> THEN BoundAll(t, <<>>)
    ELSE BindStatementsRest(BindStatement(t, scope_index, Head(statements)),
                            scope_index, statements)

BindExpressionsRest(first, scope_index, exprs) ==
    BoundCons(first, BindExpressions(first.tree, scope_index, Tail(exprs)))

BindExpressions(t, scope_index, exprs) ==
    IF exprs = <<>> THEN BoundAll(t, <<>>)
    ELSE BindExpressionsRest(BindExpression(t, scope_index, Head(exprs)),
                             scope_index, exprs)

\* a mutant of BindParameter: the parameter is installed in the outer scope
BindParameterOuter(param, fn_scope_index, p) ==
    Bound(Try(param.tree,
              CreateValueSymbol(param.tree, ScopeAt(param.tree, fn_scope_index).parent,
                                p.identifier, param.type_expr)),
          FunctionParameter(p.identifier, param.type_expr))

\* the closure mapped over the parameters: param is the unwrap_or of the
\* annotation of p
BindParameter(param, fn_scope_index, p) ==
    Bound(Try(param.tree,
              CreateValueSymbol(param.tree, fn_scope_index, p.identifier,
                                param.type_expr)),
          FunctionParameter(p.identifier, param.type_expr))

BindParametersRest(first, scope_index, fn_scope_index, parameters) ==
    BoundCons(first, BindParameters(first.tree, scope_index, fn_scope_index,
                                    Tail(parameters)))

BindParameters(t, scope_index, fn_scope_index, parameters) ==
    IF parameters = <<>> \/ Panicked(t) THEN BoundAll(t, <<>>)
    ELSE BindParametersRest(
             BindParameter(UnwrapOrTypeVar(t, scope_index, Head(parameters).type_expr),
                           fn_scope_index, Head(parameters)),
             scope_index, fn_scope_index, parameters)

\* format!("fn{}", self.next_fn)
FnName(n) == "fn" \o ToString(n)

\* identifier.unwrap_or_else(|| ...): the name of the function
FnIdentifier(t, expr) ==
    IF expr.identifier = NoIdentifier THEN FnName(t.next_fn) ELSE expr.identifier

\* identifier.unwrap_or_else(|| ...): next_fn moves on when a name is made
TakeFnName(t, expr) ==
    IF expr.identifier = NoIdentifier THEN [t EXCEPT !.next_fn = @ + 1] ELSE t

\* the TypeExpr::FunctionDefinition stored for the function
FnType(fn_identifier, bound_params, return_type) ==
    FunctionDefinition(
        <<fn_identifier>>,
        [i \in DOMAIN bound_params.nodes |-> bound_params.nodes[i].type_expr],
        return_type.type_expr)

\* the last step: create_type_symbol in the enclosing scope, fn_expr returned
BindFnTypeSymbol(bound_params, return_type, body, scope_index, fn_scope, fn_identifier) ==
    Bound(Try(body.tree,
              CreateTypeSymbol(body.tree, scope_index, <<fn_identifier>>,
                               FnType(fn_identifier, bound_params, return_type))),
          FunctionDefinitionExpr(bound_params.nodes, return_type.type_expr,
                                 body.node, fn_scope, fn_identifier))

\* the body is bound in the scope of the function
BindFnBody(bound_params, return_type, scope_index, fn_scope, fn_identifier, expr) ==
    BindFnTypeSymbol(bound_params, return_type,
                     BindExpression(Try(bound_params.tree, return_type.tree),
                                    fn_scope, expr.body),
                     scope_index, fn_scope, fn_identifier)

\* return_type.unwrap_or(self.create_type_var(scope_index))
BindFnReturnType(bound_params, scope_index, fn_scope_index, fn_identifier, expr) ==
    BindFnBody(bound_params,
               UnwrapOrTypeVar(bound_params.tree, scope_index, expr.return_type),
               scope_index, fn_scope_index, fn_identifier, expr)

BindFunctionDefinition(t, scope_index, expr) ==
    BindFnReturnType(
        BindParameters(TakeFnName(NewChildScope(t, scope_index), expr),
                       scope_index, Len(t.scopes), expr.parameters),
        scope_index, Len(t.scopes), FnIdentifier(t, expr), expr)

BindBlock(stmts, block_scope) ==
    Bound(stmts.tree, BlockExpression(stmts.nodes, block_scope))

BindBinaryDone(expr, left, right) ==
    Bound(right.tree, Binary(left.node, expr.op, right.node))

BindBinaryRight(expr, left, scope_index) ==
    BindBinaryDone(expr, left, BindExpression(left.tree, scope_index, expr.right))

BindCallDone(callee, args) ==
    Bound(args.tree, FunctionCallExpr(callee.node, args.nodes))

BindCallArgs(expr, callee, scope_index) ==
    BindCallDone(callee, BindExpressions(callee.tree, scope_index, expr.args))

BindDotCallDone(expr, callee) ==
    Bound(callee.tree, [expr EXCEPT !.callee = callee.node])

BindExpression(t, scope_index, expr) ==
    IF Panicked(t) THEN Bound(t, expr)
    ELSE CASE expr.k = "DotCall" ->
                BindDotCallDone(expr, BindExpression(t, scope_index, expr.callee))
           [] expr.k = "BlockExpression" ->
                BindBlock(BindStatements(NewChildScope(t, scope_index),
                                         Len(t.scopes), expr.statements),
                          Len(t.scopes))
           [] expr.k = "Binary" ->
                BindBinaryRight(expr, BindExpression(t, scope_index, expr.left),
                                scope_index)
           [] expr.k = "FunctionCall" ->
                BindCallArgs(expr, BindExpression(t, scope_index, expr.callee),
                             scope_index)
           [] expr.k = "FunctionDefinition" ->
                BindFunctionDefinition(t, scope_index, expr)
           [] OTHER -> Bound(t, expr)

\* the last segment of a module name
LastSegment(package_name) == package_name[Len(package_name)]

\* process_import: the import becomes a value symbol of the program scope,
\* named by the alias or by the last segment of the module name
ProcessImport(t, program_scope_index, import) ==
    IF FindModulesByName(Join(import.package_name)) = <<>>
    THEN Panic(t, "module should exist")
    ELSE CreateValueSymbol(
             t, program_scope_index,
             IF import.aliased_name # NoAlias THEN import.aliased_name
             ELSE LastSegment(import.package_name),
             ImportRef(Join(import.package_name),
                       FindModulesByName(Join(import.package_name))))

\* bind_program: for import in program.imports { self.process_import(..) }
RECURSIVE ProcessImports(_, _, _)
ProcessImports(t, program_scope_index, imports) ==
    IF imports = <<>> \/ Panicked(t) THEN t
    ELSE ProcessImports(ProcessImport(t, program_scope_index, Head(imports)),
                        program_scope_index, Tail(imports))

BindProgramDone(stmts, program_scope_index, parsed_program) ==
    Bound(stmts.tree,
          ImportingProgram(parsed_program.imports, stmts.nodes, program_scope_index))

BindProgram(t, parsed_program) ==
    BindProgramDone(
        BindStatements(ProcessImports(NewProgramScope(t), Len(t.scopes),
                                      parsed_program.imports),
                       Len(t.scopes), parsed_program.statements),
        Len(t.scopes), parsed_program)

-----------------------------------------------------------------------------
(* constraints.rs: the constraint collector.  Every collect operation      *)
(* returns the scope tree (create_type_var changes it), the constraints    *)
(* pushed so far and the TypeExpr of the node.                             *)

Collected(t, cs, type_expr) ==
    [tree |-> t, constraints |-> cs, type_expr |-> type_expr]
CollectedAll(t, cs, types) == [tree |-> t, constraints |-> cs, types |-> types]
CollectPanic(t, cs, msg) == Collected(Panic(t, msg), cs, NoType)
\* the Vec collected from a map: the first TypeExpr in front of the others
CollectedCons(first, rest) ==
    CollectedAll(rest.tree, rest.constraints, <<first.type_expr>> \o rest.types)

ArithmeticOps == {"Add", "Subtract", "Multiply", "Divide"}
RelationalOps == {"GreaterThan", "GreaterOrEqual", "LessThan", "LessOrEqual"}
EqualityOps == {"Equal", "NotEqual"}

RECURSIVE CollectExpr(_, _, _, _)
RECURSIVE CollectExprs(_, _, _, _)
RECURSIVE CollectBlockStatements(_, _, _, _)

\* collect_const_dec: const_type = expr_type is pushed, const_type returned
CollectConstDecConstraint(const_type, expr, parent_scope) ==
    IF Panicked(expr.tree) THEN expr
    ELSE Collected(expr.tree,
                   Append(expr.constraints,
                          Constraint(const_type, expr.type_expr, parent_scope)),
                   const_type)

CollectConstDec(t, cs, const_dec, parent_scope) ==
    IF ~FindValueSymbol(t, parent_scope, const_dec.identifier).found
    THEN CollectPanic(t, cs, "called Option::unwrap() on a None value")
    ELSE CollectConstDecConstraint(
             FindValueSymbol(t, parent_scope, const_dec.identifier).symbol.type_expr,
             CollectExpr(t, cs, const_dec.value, parent_scope),
             parent_scope)

CollectExprsRest(first, exprs, parent_scope) ==
    CollectedCons(first, CollectExprs(first.tree, first.constraints, Tail(exprs),
                                      parent_scope))

\* the args.iter().map(collect_expr) of a call, in order
CollectExprs(t, cs, exprs, parent_scope) ==
    IF exprs = <<>> \/ Panicked(t) THEN CollectedAll(t, cs, <<>>)
    ELSE CollectExprsRest(CollectExpr(t, cs, Head(exprs), parent_scope), exprs,
                          parent_scope)

\* collect_statement, and the match on the statements of a block
CollectStatement(t, cs, statement, scope_index) ==
    IF statement.k = "ConstDec" THEN CollectConstDec(t, cs, statement, scope_index)
    ELSE IF statement.k = "TypeDec" THEN CollectPanic(t, cs, "not yet implemented")
    ELSE CollectExpr(t, cs, statement.expr, scope_index)

\* the filter_map of a block keeps the TypeExpr of a Return only
CollectReturned(statement, first, rest) ==
    CollectedAll(rest.tree, rest.constraints,
                 (IF statement.k = "Return" THEN <<first.type_expr>> ELSE <<>>)
                     \o rest.types)

CollectBlockStatementsRest(first, statements, block_scope) ==
    CollectReturned(Head(statements), first,
                    CollectBlockStatements(first.tree, first.constraints,
                                           Tail(statements), block_scope))

\* the filter_map over the statements of a block: types holds the TypeExprs
\* of the Return statements
CollectBlockStatements(t, cs, statements, block_scope) ==
    IF statements = <<>> \/ Panicked(t) THEN CollectedAll(t, cs, <<>>)
    ELSE CollectBlockStatementsRest(
             CollectStatement(t, cs, Head(statements), block_scope),
             statements, block_scope)

\* the constraints a block pushes for the returns that differ from the last
ReturnConstraints(returned_exprs, last_return, block_scope) ==
    LET differing == SelectSeq(returned_exprs, LAMBDA ty : ty # last_return)
    IN  [i \in DOMAIN differing |-> Constraint(last_return, differing[i], block_scope)]

\* FunctionDefinition arm: return_type = body_returns is pushed in the scope
\* of the function, the stored function type returned
CollectFnReturn(fn_type, body_returns, fn_scope) ==
    IF Panicked(body_returns.tree) THEN body_returns
    ELSE Collected(body_returns.tree,
                   Append(body_returns.constraints,
                          Constraint(fn_type.return_type, body_returns.type_expr,
                                     fn_scope)),
                   fn_type)

CollectFunctionDefinition(t, cs, expr) ==
    IF expr.scope = NoScope \/ expr.identifier = NoIdentifier
    THEN CollectPanic(t, cs, "Fn def has something missing")
    ELSE LET fn_type_symbol == FindTypeSymbol(t, expr.scope, <<expr.identifier>>)
         IN  IF ~fn_type_symbol.found
             THEN CollectPanic(t, cs, "Error: expected fn_def type symbol")
             ELSE IF fn_type_symbol.symbol.type_expr.k # "FunctionDefinition"
             THEN CollectPanic(t, cs, "Fn is not a Function type in the symbol table")
             ELSE CollectFnReturn(fn_type_symbol.symbol.type_expr,
                                  CollectExpr(t, cs, expr.body, expr.scope),
                                  expr.scope)

\* Binary arm: the constraints pushed once both sides are collected
CollectBinaryConstraints(left, right, expr, parent_scope) ==
    LET same == Append(right.constraints,
                       Constraint(left.type_expr, right.type_expr, parent_scope))
        numbers == same \o <<Constraint(TNumber, left.type_expr, parent_scope),
                             Constraint(TNumber, right.type_expr, parent_scope)>>
    IN  IF Panicked(right.tree) THEN right
        ELSE IF expr.op \in ArithmeticOps THEN Collected(right.tree, numbers, TNumber)
        ELSE IF expr.op \in RelationalOps THEN Collected(right.tree, numbers, TBoolean)
        ELSE Collected(right.tree, same, TBoolean)

CollectBinaryRight(left, expr, parent_scope) ==
    IF Panicked(left.tree) THEN left
    ELSE CollectBinaryConstraints(
             left,
             CollectExpr(left.tree, left.constraints, expr.right, parent_scope),
             expr, parent_scope)

CollectBinary(t, cs, expr, parent_scope) ==
    CollectBinaryRight(CollectExpr(t, cs, expr.left, parent_scope), expr,
                       parent_scope)

\* FunctionCall arm, the else branch: the arguments are collected a second
\* time as the parameters of a synthesized definition
CollectCallSynthesized(resolved_type, return_type, params, parent_scope) ==
    IF Panicked(params.tree) THEN Collected(params.tree, params.constraints, NoType)
    ELSE Collected(params.tree,
                   Append(params.constraints,
                          Constraint(resolved_type,
                                     FunctionDefinition(resolved_type.id, params.types,
                                                        return_type),
                                     parent_scope)),
                   return_type)

\* a mutant of CollectCallConstraint: the resolved type of the callee is the
\* left side of the constraint in both arms
CollectCallConstraintSwapped(callee, resolved_type, return_type, args, expr, parent_scope) ==
    IF Panicked(args.tree) THEN Collected(args.tree, args.constraints, NoType)
    ELSE IF resolved_type.k \in {"FunctionDefinition", "FunctionCall"}
    THEN Collected(args.tree,
                   Append(args.constraints,
                          Constraint(resolved_type,
                                     FunctionCall(args.types, return_type,
                                                  callee.type_expr),
                                     parent_scope)),
                   return_type)
    ELSE IF resolved_type.k \notin {"TypeRef", "InferenceRequired"}
    THEN CollectPanic(args.tree, args.constraints,
                      "Expected fn call resolved type to be a TypeIdentifier")
    ELSE CollectCallSynthesized(
             resolved_type, return_type,
             CollectExprs(args.tree, args.constraints, expr.args, parent_scope),
             parent_scope)

\* FunctionCall arm: the constraint pushed for the call
CollectCallConstraint(callee, resolved_type, return_type, args, expr, parent_scope) ==
    IF Panicked(args.tree) THEN Collected(args.tree, args.constraints, NoType)
    ELSE IF resolved_type.k \in {"FunctionDefinition", "FunctionCall"}
    THEN Collected(args.tree,
                   Append(args.constraints,
                          Constraint(FunctionCall(args.types, return_type,
                                                  callee.type_expr),
                                     resolved_type, parent_scope)),
                   return_type)
    ELSE IF resolved_type.k \notin {"TypeRef", "InferenceRequired"}
    THEN CollectPanic(args.tree, args.constraints,
                      "Expected fn call resolved type to be a TypeIdentifier")
    ELSE CollectCallSynthesized(
             resolved_type, return_type,
             CollectExprs(args.tree, args.constraints, expr.args, parent_scope),
             parent_scope)

\* FunctionCall arm: create_type_var for the return type, then the arguments
CollectCallArgs(callee, resolved_type, expr, parent_scope) ==
    IF resolved_type = Diverges
    THEN CollectPanic(callee.tree, callee.constraints, "stack overflow")
    ELSE CollectCallConstraint(
             callee, resolved_type, NextTypeVar(callee.tree),
             CollectExprs(CreateTypeVar(callee.tree, parent_scope),
                          callee.constraints, expr.args, parent_scope),
             expr, parent_scope)

\* FunctionCall arm: resolve_type(callee_type, parent_scope)
CollectCallResolve(callee, expr, parent_scope) ==
    IF Panicked(callee.tree) THEN callee
    ELSE CollectCallArgs(callee,
                         ResolveType(callee.tree, callee.type_expr, parent_scope),
                         expr, parent_scope)

CollectFunctionCall(t, cs, expr, parent_scope) ==
    CollectCallResolve(CollectExpr(t, cs, expr.callee, parent_scope), expr,
                       parent_scope)

\* BlockExpression arm: the last return is the type of the block
CollectBlockReturns(stmts, block_scope) ==
    LET returned_exprs == stmts.types
        last_return == IF returned_exprs = <<>> THEN TVoid
                       ELSE returned_exprs[Len(returned_exprs)]
    IN  IF Panicked(stmts.tree) THEN Collected(stmts.tree, stmts.constraints, NoType)
        ELSE Collected(stmts.tree,
                       stmts.constraints
                           \o ReturnConstraints(returned_exprs, last_return, block_scope),
                       last_return)

CollectBlock(t, cs, expr) ==
    CollectBlockReturns(CollectBlockStatements(t, cs, expr.statements, expr.scope),
                        expr.scope)

\* DotCall arm on an ExternPackage: the member named local_name, as a
\* FunctionDefinition of its parameter types and return type
RECURSIVE FindMember(_, _)
FindMember(members, member_identifier) ==
    IF members = <<>> THEN NotFound
    ELSE IF Head(members).local_name = member_identifier THEN Found(Head(members))
    ELSE FindMember(Tail(members), member_identifier)

CollectExternMember(callee, resolved_callee_type, member_search) ==
    IF ~member_search.found
    THEN CollectPanic(callee.tree, callee.constraints, "Cannot call member on package")
    ELSE IF member_search.symbol.k # "Function"
    THEN CollectPanic(callee.tree, callee.constraints, "not yet implemented")
    ELSE Collected(callee.tree, callee.constraints,
                   FunctionDefinition(
                       <<resolved_callee_type.package_name,
                         member_search.symbol.local_name>>,
                       [i \in DOMAIN member_search.symbol.parameters |->
                           member_search.symbol.parameters[i].type_expr],
                       member_search.symbol.return_type))

\* DotCall arm on an ImportRef: resolve_import_member_type(..).unwrap_or_else
CollectImportMember(callee, member) ==
    IF member.panic # NoPanic
    THEN CollectPanic(callee.tree, callee.constraints, member.panic)
    ELSE IF member.type_expr = NoType
    THEN CollectPanic(callee.tree, callee.constraints, "can resolve member of module")
    ELSE Collected(callee.tree, callee.constraints, member.type_expr)

\* DotCall arm: the match on the resolved type of the callee
CollectDotCallResolved(callee, resolved_callee_type, expr) ==
    IF resolved_callee_type = Diverges
    THEN CollectPanic(callee.tree, callee.constraints, "stack overflow")
    ELSE IF resolved_callee_type.k = "ExternPackage"
    THEN CollectExternMember(callee, resolved_callee_type,
                             FindMember(resolved_callee_type.members,
                                        expr.member_identifier))
    ELSE IF resolved_callee_type.k = "ImportRef"
    THEN CollectImportMember(
             callee, ResolveImportMemberType(callee.tree, resolved_callee_type.name,
                                             expr.member_identifier))
    ELSE CollectPanic(callee.tree, callee.constraints, "Unhandled dotcall type")

CollectDotCall(callee, expr, parent_scope) ==
    IF Panicked(callee.tree) THEN callee
    ELSE CollectDotCallResolved(
             callee, ResolveType(callee.tree, callee.type_expr, parent_scope), expr)

CollectExpr(t, cs, expr, parent_scope) ==
    IF Panicked(t) THEN Collected(t, cs, NoType)
    ELSE CASE expr.k = "Number" -> Collected(t, cs, TNumber)
           [] expr.k = "DotCall" ->
                CollectDotCall(CollectExpr(t, cs, expr.callee, parent_scope), expr,
                               parent_scope)
           [] expr.k = "String" -> Collected(t, cs, TString)
           [] expr.k = "Boolean" -> Collected(t, cs, TBoolean)
           [] expr.k = "Void" -> Collected(t, cs, TVoid)
           [] expr.k = "FunctionDefinition" -> CollectFunctionDefinition(t, cs, expr)
           [] expr.k = "ValueReference" ->
                IF ~FindValueSymbol(t, parent_scope, expr.name).found
                THEN CollectPanic(t, cs, "Could not find value in scope")
                ELSE Collected(t, cs,
                               FindValueSymbol(t, parent_scope, expr.name).symbol.type_expr)
           [] expr.k = "BlockExpression" -> CollectBlock(t, cs, expr)
           [] expr.k = "Binary" -> CollectBinary(t, cs, expr, parent_scope)
           [] expr.k = "FunctionCall" -> CollectFunctionCall(t, cs, expr, parent_scope)

RECURSIVE CollectTopStatements(_, _, _, _)

CollectTopStatementsRest(first, statements, program_scope) ==
    CollectTopStatements(first.tree, first.constraints, Tail(statements),
                         program_scope)

\* collect_program: the top statements in order, in the program scope
CollectTopStatements(t, cs, statements, program_scope) ==
    IF statements = <<>> \/ Panicked(t) THEN Collected(t, cs, NoType)
    ELSE CollectTopStatementsRest(
             CollectStatement(t, cs, Head(statements), program_scope),
             statements, program_scope)

CollectProgram(t, bound_program) ==
    CollectTopStatements(t, <<>>, bound_program.statements, bound_program.scope)

-----------------------------------------------------------------------------
(* codegen.rs: CodeGenerator.  The Go text is not modelled; each operator  *)
(* yields the message of the panic that stops the generator, or NoPanic.   *)

\* the first of two steps to panic
FirstPanic(first, second) == IF first # NoPanic THEN first ELSE second

\* primitive_type_conversion: every type but Number, String and Void is todo!()
PrimitiveTypeConversion(type_expr) ==
    IF type_expr \in {TNumber, TString, TVoid} THEN NoPanic
    ELSE "not yet implemented"

\* resolve_type(type_expr.expect(..), scope_index)
GenerateResolve(t, type_expr, scope_index) ==
    IF type_expr = NoType THEN "type expr value"
    ELSE IF ResolveType(t, type_expr, scope_index) = Diverges THEN "stack overflow"
    ELSE NoPanic

\* the closure mapped over the parameters of a function
RECURSIVE GenerateParams(_, _, _)
GenerateParams(t, parameters, scope_index) ==
    IF parameters = <<>> THEN NoPanic
    ELSE FirstPanic(
             FirstPanic(GenerateResolve(t, Head(parameters).type_expr, scope_index),
                        PrimitiveTypeConversion(
                            ResolveType(t, Head(parameters).type_expr, scope_index))),
             GenerateParams(t, Tail(parameters), scope_index))

\* generate_go: the keys of import_map, the last segments of the imports
ImportMapKeys(imports) == {LastSegment(imports[i].package_name) : i \in DOMAIN imports}
\* generate_go: a key that is already in import_map
ImportMapClash(imports) ==
    \E i, j \in DOMAIN imports :
        /\ i < j
        /\ LastSegment(imports[i].package_name) = LastSegment(imports[j].package_name)

RECURSIVE GenerateExpr(_, _, _, _)
RECURSIVE GenerateExprs(_, _, _, _)

GenerateExprs(t, import_map, exprs, scope_index) ==
    IF exprs = <<>> THEN NoPanic
    ELSE FirstPanic(GenerateExpr(t, import_map, Head(exprs), scope_index),
                    GenerateExprs(t, import_map, Tail(exprs), scope_index))

\* generate_expr, DotCall arm on a lower-case name: the member of an
\* extern package
GenerateExternMember(value_symbol, member_identifier) ==
    IF ~value_symbol.found THEN "could find value symbol"
    ELSE IF value_symbol.symbol.type_expr.k = "ExternPackage"
            /\ ~FindMember(value_symbol.symbol.type_expr.members,
                           member_identifier).found
    THEN "Could not find member with that name"
    ELSE NoPanic

GenerateExpr(t, import_map, expr, scope_index) ==
    CASE expr.k \in {"Number", "String"} -> NoPanic
      [] expr.k = "Binary" ->
           FirstPanic(GenerateExpr(t, import_map, expr.left, scope_index),
                      GenerateExpr(t, import_map, expr.right, scope_index))
      [] expr.k = "ValueReference" ->
           IF IsTypeIdentifier(expr) /\ expr.name \notin import_map
           THEN "go package name" ELSE NoPanic
      [] expr.k = "FunctionCall" ->
           FirstPanic(GenerateExprs(t, import_map, expr.args, scope_index),
                      GenerateExpr(t, import_map, expr.callee, scope_index))
      [] expr.k = "DotCall" ->
           IF expr.callee.k = "ValueReference" /\ ~IsTypeIdentifier(expr.callee)
           THEN GenerateExternMember(
                    FindValueSymbol(t, scope_index, expr.callee.name),
                    expr.member_identifier)
           ELSE GenerateExpr(t, import_map, expr.callee, scope_index)
      [] OTHER -> "not yet implemented"

RECURSIVE GenerateConstDec(_, _, _, _)
RECURSIVE GenerateBlockStatements(_, _, _, _)

GenerateBlockStatements(t, import_map, statements, block_scope) ==
    IF statements = <<>> THEN NoPanic
    ELSE FirstPanic(
             IF Head(statements).k = "ConstDec"
             THEN GenerateConstDec(t, import_map, Head(statements), block_scope)
             ELSE GenerateExpr(t, import_map, Head(statements).expr, block_scope),
             GenerateBlockStatements(t, import_map, Tail(statements), block_scope))

\* generate_const_dec, the arm of a function: rendered_body
GenerateBody(t, import_map, body, scope_index) ==
    IF body.k = "BlockExpression" /\ body.scope # NoScope
    THEN GenerateBlockStatements(t, import_map, body.statements, body.scope)
    ELSE GenerateExpr(t, import_map, body, scope_index)

\* generate_const_dec, the arm of a function with a scope
GenerateFunction(t, import_map, fn, scope_index) ==
    FirstPanic(GenerateParams(t, fn.parameters, scope_index),
    FirstPanic(GenerateResolve(t, fn.return_type, scope_index),
    FirstPanic(GenerateBody(t, import_map, fn.body, scope_index),
               PrimitiveTypeConversion(ResolveType(t, fn.return_type, scope_index)))))

GenerateConstDec(t, import_map, const_dec, scope_index) ==
    IF ~FindValueSymbol(t, scope_index, const_dec.identifier).found
    THEN "type symbol should exist"
    ELSE IF const_dec.value.k = "FunctionDefinition" /\ const_dec.value.scope # NoScope
    THEN GenerateFunction(t, import_map, const_dec.value, scope_index)
    ELSE FirstPanic(
             PrimitiveTypeConversion(
                 FindValueSymbol(t, scope_index, const_dec.identifier).symbol.type_expr),
             GenerateExpr(t, import_map, const_dec.value, scope_index))

RECURSIVE GenerateStatements(_, _, _, _)
GenerateStatements(t, import_map, statements, program_scope_index) ==
    IF statements = <<>> THEN NoPanic
    ELSE FirstPanic(
             CASE Head(statements).k = "ConstDec" ->
                    GenerateConstDec(t, import_map, Head(statements),
                                     program_scope_index)
               [] Head(statements).k = "Expr" ->
                    GenerateExpr(t, import_map, Head(statements).expr,
                                 program_scope_index)
               [] OTHER -> "Not implemented",
             GenerateStatements(t, import_map, Tail(statements), program_scope_index))

\* generate_go
GenerateGo(t, collected_program) ==
    IF collected_program.scope = NoScope THEN NoPanic
    ELSE IF ImportMapClash(collected_program.imports)
    THEN "already added to the go package names import map"
    ELSE GenerateStatements(t, ImportMapKeys(collected_program.imports),
                            collected_program.statements, collected_program.scope)

-----------------------------------------------------------------------------
(* Spec: a client of one ScopeTree.  Each action is one call of a public   *)
(* operation; a panic ends the run with the tree as it was when it struck. *)

ValueNames == {"x", "y"}
TypeIdents == {<<"A">>, <<"A", "B">>}
TypeVarIdents == {<<TypeVarName(n)>> : n \in 0 .. 1}
\* ground TypeExprs: they hold no TypeRef and no InferenceRequired
GroundTypes ==
    {TNumber, TString, TBoolean, TVoid,
     FunctionDefinition(<<"f">>, <<TNumber>>, TString),
     FunctionDefinition(<<"g">>, <<>>, TVoid),
     RecordType(<<>>), ExternPackage("fmt", <<>>)}
\* the types a client stores in symbols
SymbolTypes == {TNumber, TypeRef(<<"A">>), InferenceRequired(<<TypeVarName(0)>>)}
\* the type of the call f(1), with String for the type of its result
CallOfF ==
    FunctionCall(<<TNumber>>, TString,
                 FunctionDefinition(<<"f">>, <<TNumber>>, TString))
\* the types a client hands to unify
UnifyTypes ==
    GroundTypes \cup {TypeRef(<<"A">>)} \cup {InferenceRequired(id) : id \in TypeVarIdents}
\* the constraints a client hands to unify: every type with itself, a
\* variable on either side of a type, and pairs of types that differ
UnifyPairs ==
    {<<ty, ty>> : ty \in UnifyTypes}
        \cup UNION {{<<InferenceRequired(<<TypeVarName(0)>>), ty>>,
                      <<ty, InferenceRequired(<<TypeVarName(0)>>)>>} :
                        ty \in {TNumber, TBoolean, TypeRef(<<"A">>),
                                InferenceRequired(<<TypeVarName(1)>>),
                                FunctionDefinition(<<"f">>, <<TNumber>>, TString)}}
        \cup {<<TNumber, TString>>, <<TypeRef(<<"A">>), TNumber>>,
              <<TNumber, TypeRef(<<"A">>)>>,
              <<FunctionDefinition(<<"f">>, <<TNumber>>, TString),
                FunctionDefinition(<<"g">>, <<>>, TVoid)>>}
        \* a call f(1) against the definition of f, in both orders
        \cup {<<CallOfF, FunctionDefinition(<<"f">>, <<TNumber>>, TString)>>,
              <<FunctionDefinition(<<"f">>, <<TNumber>>, TString), CallOfF>>}

Idle == [k |-> "Idle"]
Called(op, ok) == [op |-> op, ok |-> ok, calls |-> last.calls + 1]
PipeIdle ==
    /\ pc = "idle" /\ parsed = Idle /\ program = Idle /\ constraints = <<>>
    /\ error = NoError /\ exit_code = 0

\* no value returned yet, no module map, no activation, nothing written
NoCompiler ==
    /\ returned = NoType /\ module_map = <<>> /\ stack = <<>> /\ build = {}
compiler == <<returned, module_map, stack, build>>

\* the modules a client binds: a constant, and a function with a block body
ClientPrograms ==
    {Program(<<ConstDec("x", NoType, ENumber("42"))>>, NoScope),
     Program(<<ConstDec("y", NoType,
                        ParsedFn(<<FunctionParameter("x", NoType)>>, NoType,
                                 BlockExpression(<<Return(ValueReference("x"))>>,
                                                 NoScope)))>>,
             NoScope)}

Init ==
    /\ tree = NewScopeTree
    /\ last = [op |-> "new", ok |-> TRUE, calls |-> 0]
    /\ PipeIdle
    /\ NoCompiler

MayCall == ~Panicked(tree) /\ last.calls < MaxCalls

Returns(op, t) ==
    /\ tree' = t
    /\ last' = Called(op, ~Panicked(t))
    /\ error' = NoError
    /\ UNCHANGED <<pc, parsed, program, constraints, exit_code, compiler>>

CallNewProgramScope ==
    /\ MayCall /\ Len(tree.scopes) < MaxScopes
    /\ Returns("new_program_scope", NewProgramScope(tree))

CallNewChildScope(parent_index) ==
    /\ MayCall /\ Len(tree.scopes) < MaxScopes
    /\ Returns("new_child_scope", NewChildScope(tree, parent_index))

CallCreateValueSymbol(scope_index, identifier, type_expr) ==
    /\ MayCall
    /\ Returns("create_value_symbol",
               CreateValueSymbol(tree, scope_index, identifier, type_expr))

CallCreateTypeSymbol(scope_index, identifier, type_expr) ==
    /\ MayCall
    /\ Returns("create_type_symbol",
               CreateTypeSymbol(tree, scope_index, identifier, type_expr))

CallCreateTypeVar(scope_index) ==
    /\ MayCall /\ tree.next_type_var < MaxTypeVars
    /\ Returns("create_type_var", CreateTypeVar(tree, scope_index))

CallUpdateTypeSymbol(scope_index, identifier, type_expr) ==
    /\ MayCall
    /\ Returns("update_type_symbol",
               UpdateTypeSymbol(tree, scope_index, identifier, type_expr))

CallApplySubstitutions ==
    /\ MayCall
    /\ Returns("apply_substitutions", ApplySubstitutions(tree))

CallBindProgram(parsed_program) ==
    /\ MayCall
    /\ Returns("bind_program", BindProgram(tree, parsed_program).tree)

CallUnify(lhs, rhs, scope_index) ==
    /\ MayCall
    /\ LET r == Unify(tree, Constraint(lhs, rhs, scope_index))
       IN  /\ tree' = r.tree
           /\ last' = Called("unify", r.ok)
           /\ error' = r.error
    /\ UNCHANGED <<pc, parsed, program, constraints, exit_code, compiler>>

Next ==
    \/ CallNewProgramScope
    \/ \E p \in ScopeIndexes(tree) : CallNewChildScope(p)
    \/ \E s \in ScopeIndexes(tree), n \in ValueNames, ty \in SymbolTypes :
          CallCreateValueSymbol(s, n, ty)
    \/ \E s \in ScopeIndexes(tree), id \in TypeIdents, ty \in SymbolTypes :
          CallCreateTypeSymbol(s, id, ty)
    \/ \E s \in ScopeIndexes(tree) : CallCreateTypeVar(s)
    \/ \E s \in ScopeIndexes(tree), id \in TypeIdents \cup TypeVarIdents,
          ty \in SymbolTypes : CallUpdateTypeSymbol(s, id, ty)
    \/ CallApplySubstitutions
    \/ \E p \in ClientPrograms : CallBindProgram(p)
    \/ \E s \in ScopeIndexes(tree), pair \in UnifyPairs :
          CallUnify(pair[1], pair[2], s)

Spec == Init /\ [][Next]_vars

-----------------------------------------------------------------------------
(* PipeSpec: Compiler::process_module on one module without imports.       *)

\* the exit status of a Rust process that panicked
PanicExitCode == 101
\* the exit status of a Rust process whose stack overflowed (it aborts)
AbortExitCode == 134

Literals == {ENumber("42"), EString("hi"), EBoolean(TRUE), EVoid}
LiteralType(expr) == [k |-> expr.k]

\* the annotations of the program family: the TypeExprs Number and String,
\* and what parse_type_expr makes of the names Number and String
Annotations ==
    {TNumber, TString} \cup {ParseTypeExpr(name) : name \in {"Number", "String"}}

\* const x [: annotation] = literal
LiteralPrograms ==
    {<<ConstDec("x", annotation, literal)>> :
        annotation \in {NoType} \cup Annotations, literal \in Literals}

ParamNames == <<"a", "b", "c", "d">>
\* (), (a), (a, b), ... without annotations, and (n: Number)
ParamLists ==
    {[i \in 1 .. n |-> FunctionParameter(ParamNames[i], NoType)] : n \in 0 .. MaxParams}
        \cup {<<FunctionParameter("n", TNumber)>>}
\* a literal, the first parameter, or the sum of the first and last parameter
Bodies(params) ==
    {ENumber("1")} \cup
    (IF params = <<>> THEN {}
     ELSE {ValueReference(params[1].identifier),
           Binary(ValueReference(params[1].identifier), "Add",
                  ValueReference(params[Len(params)].identifier))})
\* const f = (params) [: Number] => body
FnDecs(params) ==
    {ConstDec("f", NoType, ParsedFn(params, return_type, body)) :
        return_type \in {NoType, TNumber}, body \in Bodies(params)}

ArgLists == {[i \in 1 .. n |-> ENumber("3")] : n \in 0 .. MaxParams}
CallF(args) == FunctionCallExpr(ValueReference("f"), args)
\* a call of f: bound to a constant, as a top statement, returned from a
\* block, and in the body of another function with or without a return
\* annotation
CallSites(args) ==
    {ConstDec("z", NoType, CallF(args)),
     ExprStatement(CallF(args)),
     ConstDec("z", NoType, BlockExpression(<<Return(CallF(args))>>, NoScope)),
     ConstDec("g", NoType, ParsedFn(<<>>, NoType, CallF(args))),
     ConstDec("g", NoType,
              ParsedFn(<<>>, TString,
                       BlockExpression(<<Return(CallF(args))>>, NoScope)))}

\* a definition of f and a call of it, in either textual order
CallPrograms(params, args) ==
    UNION {{<<dec, call>>, <<call, dec>>} :
              dec \in FnDecs(params), call \in CallSites(args)}

\* the modules in which the call passes a number of arguments that is not
\* the number of parameters of f
ArityMismatched ==
    UNION {IF Len(params) # Len(args) THEN CallPrograms(params, args) ELSE {} :
              params \in ParamLists, args \in ArgLists}

\* const double = (n: Number) => n + n
DoubleProgram ==
    <<ConstDec("double", NoType,
               ParsedFn(<<FunctionParameter("n", TNumber)>>, NoType,
                        Binary(ValueReference("n"), "Add", ValueReference("n"))))>>

\* const id = (x) => x
\* const y = id(3)
IdProgram ==
    <<ConstDec("id", NoType,
               ParsedFn(<<FunctionParameter("x", NoType)>>, NoType,
                        ValueReference("x"))),
      ConstDec("y", NoType,
               FunctionCallExpr(ValueReference("id"), <<ENumber("3")>>))>>

\* const f = (a, b) => a + b
\* const z = f(1)
ArityProgram ==
    <<ConstDec("f", NoType,
               ParsedFn(<<FunctionParameter("a", NoType), FunctionParameter("b", NoType)>>,
                        NoType,
                        Binary(ValueReference("a"), "Add", ValueReference("b")))),
      ConstDec("z", NoType,
               FunctionCallExpr(ValueReference("f"), <<ENumber("1")>>))>>

\* const x: Number = "hi"
MismatchProgram == <<ConstDec("x", TNumber, EString("hi"))>>

\* x(x)
SelfApply == FunctionCallExpr(ValueReference("x"), <<ValueReference("x")>>)
\* const f = (x) => x(x)
\* const f = (x) => { x(x)   return x(x) }
SelfApplyPrograms ==
    {<<ConstDec("f", NoType,
                ParsedFn(<<FunctionParameter("x", NoType)>>, NoType, body))>> :
        body \in {SelfApply,
                  BlockExpression(<<ExprStatement(SelfApply), Return(SelfApply)>>,
                                  NoScope)}}

\* const h = () => { const k = (a) => a   return 1 }
NestedFnProgram ==
    <<ConstDec("h", NoType,
               ParsedFn(<<>>, NoType,
                        BlockExpression(
                            <<ConstDec("k", NoType,
                                       ParsedFn(<<FunctionParameter("a", NoType)>>,
                                                NoType, ValueReference("a"))),
                              Return(ENumber("1"))>>,
                            NoScope)))>>

Programs ==
    {Program(statements, NoScope) :
        statements \in LiteralPrograms \cup {NestedFnProgram}
            \cup {DoubleProgram, IdProgram, ArityProgram, MismatchProgram}
            \cup SelfApplyPrograms
            \cup UNION {{<<dec>> : dec \in FnDecs(params)} : params \in ParamLists}
            \cup UNION {CallPrograms(params, args) :
                           params \in ParamLists, args \in ArgLists}}

PipeInit ==
    /\ tree = NewScopeTree
    /\ last = [op |-> "new", ok |-> TRUE, calls |-> 0]
    /\ pc = "parsed"
    /\ parsed \in Programs
    /\ program = Idle
    /\ constraints = <<>>
    /\ error = NoError
    /\ exit_code = 0
    /\ NoCompiler

\* a panic unwinds out of main and the process ends with status 101; a stack
\* overflow aborts it; t is the scope tree the failing call leaves
Unwind(t) ==
    /\ pc' = "exited"
    /\ exit_code' = IF t.panic = "stack overflow" THEN AbortExitCode
                    ELSE PanicExitCode

\* self.scope_tree.bind_program(program)
Bind ==
    /\ pc = "parsed"
    /\ LET bound == BindProgram(tree, parsed)
       IN  /\ tree' = bound.tree
           /\ program' = bound.node
           /\ last' = Called("bind_program", ~Panicked(bound.tree))
           /\ IF Panicked(bound.tree) THEN Unwind(bound.tree)
              ELSE pc' = "bound" /\ exit_code' = exit_code
    /\ UNCHANGED <<parsed, constraints, error, compiler>>

\* constraints_collector.collect_program(bound_program)
Collect ==
    /\ pc = "bound"
    /\ LET collected == CollectProgram(tree, program)
       IN  /\ tree' = collected.tree
           /\ constraints' = collected.constraints
           /\ last' = Called("collect_program", ~Panicked(collected.tree))
           /\ IF Panicked(collected.tree) THEN Unwind(collected.tree)
              ELSE pc' = "collected" /\ exit_code' = exit_code
    /\ UNCHANGED <<parsed, program, error, compiler>>

\* analyze_scope_tree: unify(constraint, scope_tree)? leaves the loop at the
\* first error
AfterUnify(result) == IF result.ok THEN "collected" ELSE "failed"

\* one turn of the for loop of analyze_scope_tree
UnifyNext ==
    /\ pc = "collected"
    /\ constraints # <<>>
    /\ LET result == Unify(tree, Head(constraints))
       IN  /\ tree' = result.tree
           /\ last' = Called("unify", result.ok)
           /\ IF Panicked(result.tree)
              THEN Unwind(result.tree) /\ UNCHANGED <<constraints, error>>
              ELSE /\ pc' = AfterUnify(result)
                   /\ error' = IF result.ok THEN error ELSE result.error
                   /\ constraints' = Tail(constraints)
                   /\ exit_code' = exit_code
    /\ UNCHANGED <<parsed, program, compiler>>

\* analyze_scope_tree after the loop: scope_tree.apply_substitutions(); Ok(())
Substitute ==
    /\ pc = "collected"
    /\ constraints = <<>>
    /\ tree' = ApplySubstitutions(tree)
    /\ last' = Called("apply_substitutions", ~Panicked(tree'))
    /\ IF Panicked(tree') THEN Unwind(tree')
       ELSE pc' = "analyzed" /\ exit_code' = exit_code
    /\ UNCHANGED <<parsed, program, constraints, error, compiler>>

\* process_module with analyze_result.is_ok(): generate_go runs; when it
\* returns, the artifact is written, process_module and compile return Ok
\* and main returns Ok(())
Emit ==
    /\ pc = "analyzed"
    /\ pc' = "exited"
    /\ exit_code' = CASE GenerateGo(tree, program) = NoPanic -> 0
                       [] GenerateGo(tree, program) = "stack overflow" -> AbortExitCode
                       [] OTHER -> PanicExitCode
    /\ last' = Called("generate_go", GenerateGo(tree, program) = NoPanic)
    /\ UNCHANGED <<tree, parsed, program, constraints, error, compiler>>

\* process_module with an Err from analyze_scope_tree: panic!("Error: ...")
Abort ==
    /\ pc = "failed"
    /\ Unwind(tree)
    /\ last' = Called("panic", FALSE)
    /\ UNCHANGED <<tree, parsed, program, constraints, error, compiler>>

PipeNext == Bind \/ Collect \/ UnifyNext \/ Substitute \/ Emit \/ Abort

PipeSpec == PipeInit /\ [][PipeNext]_vars

-----------------------------------------------------------------------------
(* TypeSpec: a client that binds a module of type declarations and then    *)
(* calls resolve_type and apply_substitutions on the scope tree.           *)

TypeA == <<"A">>
TypeB == <<"B">>
\* what a declared type stands for: a primitive, a declared name (itself or
\* the other one), or a name nobody declares
TypeValues == {TNumber, TypeRef(TypeA), TypeRef(TypeB), TypeRef(<<"C">>)}
\* type A = va
\* type B = vb        or   type B<T> = vb
\* const x: annotation = 42
TypePrograms ==
    {Program(<<TypeDec(TypeA, <<>>, va), TypeDec(TypeB, type_vars, vb),
               ConstDec("x", annotation, ENumber("42"))>>, NoScope) :
        va \in TypeValues, vb \in TypeValues, type_vars \in {<<>>, <<<<"T">>>>},
        annotation \in {TNumber, TypeRef(TypeA), TypeRef(TypeB)}}
\* the TypeExprs the client asks resolve_type about
ResolveInputs ==
    {TNumber, TypeRef(TypeA), TypeRef(TypeB), TypeRef(<<"C">>),
     InferenceRequired(<<"T">>)}

TypeInit == Init

\* scope_tree.bind_program(program) on the new tree
TypeBind(parsed_program) ==
    /\ last.op = "new"
    /\ tree' = BindProgram(tree, parsed_program).tree
    /\ parsed' = parsed_program
    /\ last' = Called("bind_program", ~Panicked(tree'))
    /\ UNCHANGED <<pc, program, constraints, error, exit_code, compiler>>

\* scope_tree.resolve_type(type_expr, scope_index); a recursion that never
\* returns overflows the stack and the process is gone
TypeResolve(type_expr, scope_index) ==
    /\ last.op # "new" /\ MayCall
    /\ returned' = ResolveType(tree, type_expr, scope_index)
    /\ tree' = IF returned' = Diverges THEN Panic(tree, "stack overflow") ELSE tree
    /\ last' = Called("resolve_type", returned' # Diverges)
    /\ UNCHANGED <<pc, parsed, program, constraints, error, exit_code,
                   module_map, stack, build>>

\* scope_tree.apply_substitutions()
TypeApply ==
    /\ last.op # "new" /\ MayCall
    /\ tree' = ApplySubstitutions(tree)
    /\ last' = Called("apply_substitutions", ~Panicked(tree'))
    /\ UNCHANGED <<pc, parsed, program, constraints, error, exit_code, compiler>>

TypeNext ==
    \/ \E p \in TypePrograms : TypeBind(p)
    \/ \E type_expr \in ResolveInputs, s \in ScopeIndexes(tree) :
          TypeResolve(type_expr, s)
    \/ TypeApply

TypeSpec == TypeInit /\ [][TypeNext]_vars

-----------------------------------------------------------------------------
(* CompileSpec: main compiles an entry file of the source directories.     *)
(* Each activation of process_module is a frame of the stack: it parses    *)
(* its module, calls process_module for every module of every imported     *)
(* name, and then binds, collects, analyzes and emits its own module.      *)

\* the activations of process_module the stack of the process has room for
MaxStack == 4

\* const x = 42
LitStatements == <<ConstDec("x", NoType, ENumber("42"))>>
\* const x = true
BoolStatements == <<ConstDec("x", NoType, EBoolean(TRUE))>>
\* const greet = (s: String)[: Void] => { s }
GreetStatements(return_type) ==
    <<ConstDec("greet", NoType,
               ParsedFn(<<FunctionParameter("s", TString)>>, return_type,
                        BlockExpression(<<ExprStatement(ValueReference("s"))>>,
                                        NoScope)))>>
\* const r = A.greet("hi")
CallGreetStatements ==
    <<ConstDec("r", NoType,
               FunctionCallExpr(DotCall(TypeValueReference("A"), "greet"),
                                <<EString("hi")>>))>>

\* const r = X.greet("hi")
CallAliasedGreetStatements ==
    <<ConstDec("r", NoType,
               FunctionCallExpr(DotCall(TypeValueReference("X"), "greet"),
                                <<EString("hi")>>))>>

\* from <package_name> import
From(package_name) == PackageImport(package_name, NoAlias)
\* the file of a module with a single segment in its name
File(name, exports, imports, statements) ==
    Module(name \o ".fyg", name, exports,
           ImportingProgram(imports, statements, NoScope))
\* a file that build_module_from_filepath accepts and parse() rejects
BrokenFile(name) == Module(name \o ".fyg", name, {}, ParserError)
\* module Lib.D exporting x
LibD == Module("lib/d.fyg", Join(<<"Lib", "D">>), {"x"},
               ImportingProgram(<<>>, LitStatements, NoScope))

\* the source directories: what build_module_map makes of their files
ModuleMaps ==
    {<<File("A", {"x"}, <<>>, LitStatements)>>,
     <<File("A", {"x"}, <<>>, MismatchProgram)>>,
     <<File("A", {"x"}, <<>>, BoolStatements)>>,
     <<BrokenFile("A")>>,
     \* a chain: A imports B, B imports C
     <<File("A", {}, <<From(<<"B">>)>>, LitStatements),
       File("B", {}, <<From(<<"C">>)>>, LitStatements),
       File("C", {}, <<>>, LitStatements)>>,
     \* a diamond: A imports B and C, both import Lib.D
     <<File("A", {}, <<From(<<"B">>), From(<<"C">>)>>, LitStatements),
       File("B", {}, <<From(<<"Lib", "D">>)>>, LitStatements),
       File("C", {}, <<From(<<"Lib", "D">>)>>, LitStatements),
       LibD>>,
     \* cycles: A and B import each other; A imports itself
     <<File("A", {}, <<From(<<"B">>)>>, LitStatements),
       File("B", {}, <<From(<<"A">>)>>, LitStatements)>>,
     <<File("A", {}, <<From(<<"A">>)>>, LitStatements)>>,
     \* no file declares module C
     <<File("A", {}, <<From(<<"B">>), From(<<"C">>)>>, LitStatements),
       File("B", {}, <<>>, LitStatements)>>,
     <<File("A", {}, <<From(<<"C">>)>>, LitStatements)>>,
     \* a call of a function of the module itself
     <<File("A", {"id"}, <<>>, IdProgram)>>,
     \* two files declare module B
     <<File("A", {}, <<From(<<"B">>)>>, LitStatements),
       File("B", {}, <<>>, LitStatements),
       Module("other/B.fyg", "B", {}, ImportingProgram(<<>>, LitStatements, NoScope))>>,
     \* an import that does not parse, that does not type, that cannot be
     \* emitted
     <<File("A", {}, <<From(<<"B">>)>>, LitStatements), BrokenFile("B")>>,
     <<File("A", {}, <<From(<<"B">>)>>, LitStatements),
       File("B", {}, <<>>, MismatchProgram)>>,
     <<File("A", {}, <<From(<<"B">>)>>, LitStatements),
       File("B", {}, <<>>, BoolStatements)>>}
    \cup
    \* module A defines greet and exports nothing; module B calls A.greet("hi")
    {<<File("A", {}, <<>>, GreetStatements(TVoid)),
       File("B", {}, <<From(<<"A">>)>>, CallGreetStatements)>>}
    \cup
    \* module A exporting greet; module B, from A as X import, calls
    \* X.greet("hi")
    {<<File("A", {"greet"}, <<>>, GreetStatements(TVoid)),
       File("B", {}, <<PackageImport(<<"A">>, "X")>>, CallAliasedGreetStatements)>>}
    \cup
    \* module A exporting greet; module B calls A.greet("hi")
    {<<File("A", {"greet"}, <<>>, GreetStatements(return_type)),
       File("B", {}, <<From(<<"A">>)>>, CallGreetStatements)>> :
        return_type \in {TVoid, NoType}}

\* "./build/{}.go" of module_name.to_lowercase().replace('.', "/"), for the
\* module names of the source directories
GoFilename(module_name) ==
    "./build/" \o (CASE module_name = "A" -> "a"
                     [] module_name = "B" -> "b"
                     [] module_name = "C" -> "c"
                     [] module_name = "Lib.D" -> "lib/d"
                     [] OTHER -> module_name) \o ".go"
GoMod == "./build/go.mod"

CompileInit ==
    /\ tree = NewScopeTree
    /\ last = [op |-> "new", ok |-> TRUE, calls |-> 0]
    /\ pc = "start"
    /\ parsed = Idle /\ program = Idle /\ constraints = <<>>
    /\ error = NoError /\ exit_code = 0 /\ returned = NoType
    /\ module_map \in ModuleMaps
    /\ stack = <<>>
    \* ./build as an earlier run left it
    /\ build \in {{}, {GoMod, GoFilename("C")}}

\* an activation of process_module that has not parsed its module yet
Frame(module_index) ==
    [module_index |-> module_index, at |-> "parse", program |-> Idle,
     import |-> 1, found |-> 1]
Top == stack[Len(stack)]
SetTop(frame) == [stack EXCEPT ![Len(stack)] = frame]

\* compile: ./build is made anew, go.mod is written and process_module is
\* called on the module of the entry file
Compile(entry_module_index) ==
    /\ pc = "start"
    /\ build' = {GoMod}
    /\ stack' = <<Frame(entry_module_index)>>
    /\ pc' = "compiling"
    /\ last' = Called("compile", TRUE)
    /\ UNCHANGED <<tree, parsed, program, constraints, error, exit_code,
                   returned, module_map>>

\* an Err leaves every activation through its ? and compile through its
\* own; main prints the error and returns Ok(())
ReturnErr ==
    /\ stack' = <<>>
    /\ pc' = "exited"
    /\ exit_code' = 0

\* process_module: module.parser.reset(); module.parser.parse()
Parse ==
    /\ pc = "compiling" /\ Top.at = "parse"
    /\ IF ModuleAt(Top.module_index).parser = ParserError
       THEN /\ ReturnErr
            /\ last' = Called("parse", FALSE)
            /\ UNCHANGED parsed
       ELSE /\ stack' = SetTop([Top EXCEPT
                                   !.at = "imports",
                                   !.program = ModuleAt(Top.module_index).parser])
            /\ parsed' = ModuleAt(Top.module_index).parser
            /\ last' = Called("parse", TRUE)
            /\ UNCHANGED <<pc, exit_code>>
    /\ UNCHANGED <<tree, program, constraints, error, returned, module_map, build>>

\* the for loop over program.imports has an import to look at
ImportPending ==
    /\ pc = "compiling" /\ Top.at = "imports"
    /\ Top.import <= Len(Top.program.imports)
\* find_modules_by_name(joined_name) of the import the loop is at
Imported(frame) ==
    FindModulesByName(Join(frame.program.imports[frame.import].package_name))

\* a mutant of UnknownImport: the module is bound before its imports are
\* looked up
UnknownImportAfterBinding ==
    /\ ImportPending
    /\ Imported(Top) = <<>>
    /\ ReturnErr
    /\ tree' = BindProgram(tree, Top.program).tree
    /\ last' = Called("find_modules_by_name", FALSE)
    /\ UNCHANGED <<parsed, program, constraints, error, returned, module_map, build>>

\* process_module, the None arm: no module has the imported name
UnknownImport ==
    /\ ImportPending
    /\ Imported(Top) = <<>>
    /\ ReturnErr
    /\ last' = Called("find_modules_by_name", FALSE)
    /\ UNCHANGED <<tree, parsed, program, constraints, error, returned,
                   module_map, build>>

\* process_module, the Some arm: self.process_module(import_index); with no
\* room left for the activation the process is aborted
ProcessImported ==
    /\ ImportPending
    /\ Imported(Top) # <<>>
    /\ IF Len(stack) >= MaxStack
       THEN /\ tree' = Panic(tree, "stack overflow")
            /\ stack' = <<>>
            /\ Unwind(tree')
            /\ last' = Called("process_module", FALSE)
       ELSE /\ stack' = Append(stack, Frame(Imported(Top)[Top.found]))
            /\ last' = Called("process_module", TRUE)
            /\ UNCHANGED <<tree, pc, exit_code>>
    /\ UNCHANGED <<parsed, program, constraints, error, returned, module_map, build>>

\* analyze_scope_tree: the constraints are unified in order, the first error
\* is returned, and apply_substitutions follows the last constraint
RECURSIVE AnalyzeScopeTree(_, _)
AnalyzeNext(result, constraint_list) ==
    IF ~result.ok THEN result
    ELSE AnalyzeScopeTree(result.tree, Tail(constraint_list))
AnalyzeScopeTree(t, constraint_list) ==
    IF constraint_list = <<>> THEN UnifyOk(ApplySubstitutions(t))
    ELSE AnalyzeNext(Unify(t, Head(constraint_list)), constraint_list)

\* how the pipeline of a module ends: the scope tree, the program, the
\* constraints, the error of the analysis, whether module.program was set,
\* and the message of the panic that ended it
Outcome(t, bound_program, constraint_list, analyze_error, stored, panic) ==
    [tree |-> t, program |-> bound_program, constraints |-> constraint_list,
     error |-> analyze_error, stored |-> stored, panic |-> panic]

\* process_module after analyze_scope_tree: is_ok() stores the program and
\* generates the artifact, an Err is panic!("Error: ..")
PipelineAnalyzed(bound_program, constraint_list, result) ==
    IF Panicked(result.tree)
    THEN Outcome(result.tree, bound_program, constraint_list, NoError, FALSE,
                 result.tree.panic)
    ELSE IF ~result.ok
    THEN Outcome(result.tree, bound_program, constraint_list, result.error, FALSE,
                 "Error")
    ELSE Outcome(result.tree, bound_program, constraint_list, NoError, TRUE,
                 GenerateGo(result.tree, bound_program))

PipelineCollected(bound_program, collected) ==
    IF Panicked(collected.tree)
    THEN Outcome(collected.tree, bound_program, collected.constraints, NoError,
                 FALSE, collected.tree.panic)
    ELSE PipelineAnalyzed(bound_program, collected.constraints,
                          AnalyzeScopeTree(collected.tree, collected.constraints))

PipelineBound(bound) ==
    IF Panicked(bound.tree)
    THEN Outcome(bound.tree, bound.node, <<>>, NoError, FALSE, bound.tree.panic)
    ELSE PipelineCollected(bound.node, CollectProgram(bound.tree, bound.node))

\* process_module from bind_program to generate_go
ModulePipeline(t, parsed_program) == PipelineBound(BindProgram(t, parsed_program))

\* the activation under the one that returns moves on: to the next module
\* of the imported name, or to the next import
\* a mutant of Resume: the other modules of the imported name are skipped
ResumeNextImport(frame) == [frame EXCEPT !.import = @ + 1, !.found = 1]

Resume(frame) ==
    IF frame.found < Len(Imported(frame)) THEN [frame EXCEPT !.found = @ + 1]
    ELSE [frame EXCEPT !.import = @ + 1, !.found = 1]
Returned ==
    IF Len(stack) = 1 THEN <<>>
    ELSE Append(SubSeq(stack, 1, Len(stack) - 2), Resume(stack[Len(stack) - 1]))

\* the imports of the module are done
PipelinePending ==
    /\ pc = "compiling" /\ Top.at = "imports"
    /\ Top.import > Len(Top.program.imports)

ProcessModuleEnd(module_index, outcome) ==
    /\ tree' = outcome.tree
    /\ program' = outcome.program
    /\ constraints' = outcome.constraints
    /\ error' = outcome.error
    /\ module_map' = IF outcome.stored
                     THEN [module_map EXCEPT ![module_index + 1].program =
                                                 outcome.program]
                     ELSE module_map
    /\ last' = Called("process_module", outcome.panic = NoPanic)
    /\ IF outcome.panic # NoPanic
       THEN /\ stack' = <<>>
            /\ pc' = "exited"
            /\ exit_code' = IF outcome.panic = "stack overflow" THEN AbortExitCode
                            ELSE PanicExitCode
            /\ UNCHANGED build
       ELSE /\ build' = build \cup {GoFilename(ModuleAt(module_index).module_name)}
            /\ stack' = Returned
            /\ pc' = IF Len(stack) = 1 THEN "exited" ELSE pc
            /\ exit_code' = exit_code
    /\ UNCHANGED <<parsed, returned>>

\* process_module after the loop over the imports: the pipeline of the
\* module; Ok(()) returns to the caller, and from compile to main
ProcessModule ==
    /\ PipelinePending
    /\ ProcessModuleEnd(Top.module_index, ModulePipeline(tree, Top.program))

CompileNext ==
    \/ \E entry_module_index \in ModuleIndexes : Compile(entry_module_index)
    \/ Parse
    \/ UnknownImport
    \/ ProcessImported
    \/ ProcessModule

CompileSpec == CompileInit /\ [][CompileNext]_vars

-----------------------------------------------------------------------------
(* Properties of the scope tree (Spec).                                    *)

\* how many times scope index s stands in a children list
RECURSIVE Occurrences(_, _)
Occurrences(children, s) ==
    IF children = <<>> THEN 0
    ELSE (IF Head(children) = s THEN 1 ELSE 0) + Occurrences(Tail(children), s)

\* C1: after any sequence of new_program_scope / new_child_scope calls with
\* valid parent indices, and any binding of programs, the arena is a tree:
\* scope 0 has no parent, every other scope has a parent index inside the
\* arena, stands exactly once in the children of that parent and in the
\* children of no other scope.
ScopeArenaIsTree ==
    /\ ScopeAt(tree, 0).parent = NoParent
    /\ \A s \in ScopeIndexes(tree) \ {0} :
          /\ ScopeAt(tree, s).parent \in ScopeIndexes(tree)
          /\ \A p \in ScopeIndexes(tree) :
                Occurrences(ScopeAt(tree, p).children, s)
                    = IF p = ScopeAt(tree, s).parent THEN 1 ELSE 0

\* C1 witness: a scope nested two levels below the root, made by
\* new_child_scope, next to a second child of the root
NestedScopesReached ==
    /\ last.op = "new_child_scope"
    /\ Len(tree.scopes) = 4
    /\ ScopeAt(tree, 3).parent = 1
    /\ ScopeAt(tree, 2).parent = 0
    /\ ScopeAt(tree, 1).children = <<3>>

\* C2: create_value_symbol fails when the name is already a value symbol of
\* that scope, create_type_symbol fails when the dotted key is already a type
\* symbol of that scope, and a failing call leaves the symbol tables of every
\* scope as they were.
RedeclarationFailsUnchanged ==
    [][/\ \A s \in ScopeIndexes(tree), n \in ValueNames, ty \in SymbolTypes :
             (/\ n \in DOMAIN ScopeAt(tree, s).value_symbols
              /\ CallCreateValueSymbol(s, n, ty))
                 => (~last'.ok /\ tree'.scopes = tree.scopes)
       /\ \A s \in ScopeIndexes(tree), id \in TypeIdents, ty \in SymbolTypes :
             (/\ Join(id) \in DOMAIN ScopeAt(tree, s).type_symbols
              /\ CallCreateTypeSymbol(s, id, ty))
                 => (~last'.ok /\ tree'.scopes = tree.scopes)]_vars

\* C2 witness: create_value_symbol has panicked on a tree that has the root
\* scope only, so the name it was given was a value symbol of that very scope
RedeclarationReached ==
    /\ last.op = "create_value_symbol"
    /\ ~last.ok
    /\ tree.panic = "Cannot redeclare value symbol"
    /\ Len(tree.scopes) = 1
    /\ DOMAIN ScopeAt(tree, 0).value_symbols # {}

\* C10: for any two identical ground TypeExprs (Number, String, Boolean,
\* Void, and structurally identical FunctionDefinition, Record or
\* ExternPackage types), unify on the constraint lhs = rhs succeeds and
\* changes no type symbol and no value symbol of the scope tree.
IdenticalGroundTypesUnify ==
    [][\A ground \in GroundTypes, s \in ScopeIndexes(tree) :
          CallUnify(ground, ground, s)
              => (last'.ok /\ tree'.scopes = tree.scopes)]_vars

\* C22: redeclaration is checked per scope only: create_value_symbol and
\* create_type_symbol succeed for a name that the given scope itself does not
\* define, even when an ancestor scope defines it, and a lookup from that
\* scope then returns the new, innermost definition.
ShadowingAllowed ==
    [][/\ \A s \in ScopeIndexes(tree), n \in ValueNames, ty \in SymbolTypes :
            (/\ CallCreateValueSymbol(s, n, ty)
             /\ n \notin DOMAIN ScopeAt(tree, s).value_symbols)
                => /\ last'.ok
                   /\ FindValueSymbol(tree', s, n).found
                   /\ FindValueSymbol(tree', s, n).symbol.scope_index = s
       /\ \A s \in ScopeIndexes(tree), id \in TypeIdents, ty \in SymbolTypes :
            (/\ CallCreateTypeSymbol(s, id, ty)
             /\ Join(id) \notin DOMAIN ScopeAt(tree, s).type_symbols)
                => /\ last'.ok
                   /\ FindTypeSymbol(tree', s, id).found
                   /\ FindTypeSymbol(tree', s, id).symbol.scope_index = s]_vars

\* C21: unify is symmetric in outcome: from the same scope tree, unify on
\* lhs = a, rhs = b succeeds exactly when unify on lhs = b, rhs = a succeeds,
\* a FunctionCall paired with a FunctionDefinition included.
UnifySymmetric ==
    [][\A pair \in UnifyPairs, s \in ScopeIndexes(tree) :
          CallUnify(pair[1], pair[2], s)
              => (last'.ok = Unify(tree, Constraint(pair[2], pair[1], s)).ok)]_vars

\* the scopes that hold a type symbol named t<i>
TypeVarHolders(t, i) ==
    {s \in ScopeIndexes(t) : TypeVarName(i) \in DOMAIN ScopeAt(t, s).type_symbols}

-----------------------------------------------------------------------------
(* Properties of resolve_type and apply_substitutions (TypeSpec).          *)

\* C13: apply_substitutions is idempotent: from any scope tree on which it
\* terminates, running it once more leaves the scope tree (all value and
\* type symbols) exactly as the first run left it.
ApplySubstitutionsIdempotent ==
    [][(TypeApply /\ ~Panicked(tree')) => ApplySubstitutions(tree') = tree']_vars

\* C13 witness: apply_substitutions has replaced the annotation A of x by
\* Number through the chain A = B, B = Number
ChainSubstituted ==
    /\ last.op = "apply_substitutions"
    /\ last.ok
    /\ parsed.statements[3].type_annotation = TypeRef(TypeA)
    /\ ScopeAt(tree, 1).type_symbols["A"].type_expr = TypeRef(TypeB)
    /\ ScopeAt(tree, 1).type_symbols["B"].type_expr = TNumber
    /\ ScopeAt(tree, 1).value_symbols["x"].type_expr = TNumber

\* one lookup of resolve_type: the type the symbol named by type_expr holds
ChaseOnce(t, type_expr, scope_index) ==
    IF Chases(type_expr) /\ FindTypeSymbol(t, scope_index, type_expr.id).found
    THEN FindTypeSymbol(t, scope_index, type_expr.id).symbol.type_expr
    ELSE type_expr
\* type_expr stands on a reference cycle of length two
OnTwoCycle(t, type_expr, scope_index) ==
    /\ ChaseOnce(t, type_expr, scope_index) # type_expr
    /\ ChaseOnce(t, ChaseOnce(t, type_expr, scope_index), scope_index) = type_expr

\* C15: resolve_type terminates on every scope-tree state, the states whose
\* type symbols form a reference cycle of length two or more included (A
\* mapped to TypeRef(B) and B mapped to TypeRef(A)), and on such a cycle it
\* returns the input type unchanged.
ResolveTypeTerminates ==
    [][\A type_expr \in ResolveInputs, s \in ScopeIndexes(tree) :
          TypeResolve(type_expr, s) =>
             /\ returned' # Diverges
             /\ OnTwoCycle(tree, type_expr, s) => returned' = type_expr]_vars

-----------------------------------------------------------------------------
(* Properties of the pipeline (PipeSpec).                                  *)

\* analyze_scope_tree has returned Ok(())
AnalysisOk == pc = "analyzed" \/ (pc = "exited" /\ exit_code = 0)
\* analyze_scope_tree has returned, or the process has ended
AnalysisOver == pc \in {"analyzed", "failed", "exited"}
\* the module being compiled
Compiling(statements) == parsed = Program(statements, NoScope)
\* the TypeExpr held by a value symbol of the program scope
ProgramValueType(name) ==
    ScopeAt(tree, program.scope).value_symbols[name].type_expr
\* the stored type is FunctionDefinition{ params = [Number], return = Number }
IsNumberToNumber(type_expr) ==
    /\ type_expr.k = "FunctionDefinition"
    /\ type_expr.parameters = <<TNumber>>
    /\ type_expr.return_type = TNumber

\* C3: the pipeline on a module whose only statement is an unannotated
\* constant bound to a literal never fails, and once analyze_scope_tree has
\* returned the constant's value symbol in the program scope has the
\* literal's type (const x = 42 gives x the type Number).
LiteralConstantTyped ==
    \A literal \in Literals :
        Compiling(<<ConstDec("x", NoType, literal)>>) =>
            /\ pc # "failed"
            /\ ~Panicked(tree)
            /\ AnalysisOk => ProgramValueType("x") = LiteralType(literal)

\* C3 witness: const x = 42 has been analysed and x is a Number
LiteralConstantAnalysed ==
    /\ Compiling(<<ConstDec("x", NoType, ENumber("42"))>>)
    /\ pc = "analyzed"
    /\ ProgramValueType("x") = TNumber

\* C4: for const double = (n: Number) => n + n, after analyze_scope_tree the
\* value symbol double holds FunctionDefinition{ params = [Number], return =
\* Number }.
DoubleIsNumberToNumber ==
    (Compiling(DoubleProgram) /\ AnalysisOver) =>
        (AnalysisOk /\ IsNumberToNumber(ProgramValueType("double")))

\* C5: for const id = (x) => x followed by const y = id(3), analysis does not
\* fail and after analyze_scope_tree the value symbol y in the program scope
\* has type Number.
CallResultInferred ==
    Compiling(IdProgram) =>
        /\ pc # "failed"
        /\ ~Panicked(tree)
        /\ AnalysisOk => ProgramValueType("y") = TNumber

\* C5 witness: the module has been analysed and y is a Number
CallResultAnalysed ==
    /\ Compiling(IdProgram)
    /\ pc = "analyzed"
    /\ ProgramValueType("y") = TNumber

\* C6: for const id = (x) => x followed by const y = id(3), after
\* analyze_scope_tree the value symbol id holds FunctionDefinition{ params =
\* [Number], return = Number }.
IdIsNumberToNumber ==
    (Compiling(IdProgram) /\ AnalysisOk) => IsNumberToNumber(ProgramValueType("id"))

\* C7, as stated: for const f = (a, b) => a + b followed by const z = f(1),
\* unification fails with the message "Wrong amount of args provided" and the
\* compiler exits with a nonzero code.
ArityFailsWithArgsMessage ==
    Compiling(ArityProgram) =>
        /\ pc # "analyzed"
        /\ pc \in {"failed", "exited"} =>
              error.message = "Wrong amount of args provided"
        /\ pc = "exited" => exit_code # 0

\* C7, amended: for const f = (a, b) => a + b followed by const z = f(1),
\* unification fails with the message "Param counts don't match" and the
\* compiler exits with a nonzero code.
ArityFailsWithParamMessage ==
    Compiling(ArityProgram) =>
        /\ pc # "analyzed"
        /\ ~Panicked(tree)
        /\ pc \in {"failed", "exited"} =>
              error.message = "Param counts don't match"
        /\ pc = "exited" => exit_code # 0

\* C7 witness: the compiler has exited on the arity error
ArityFailureExited ==
    /\ Compiling(ArityProgram)
    /\ pc = "exited"
    /\ exit_code = PanicExitCode
    /\ error.message = "Param counts don't match"
    /\ Len(error.lhs.parameters) = 2
    /\ Len(error.rhs.parameters) = 1

\* C8: no module in which a call passes n arguments to a function of the
\* module with m # n parameters passes analysis: analyze_scope_tree returns
\* an error for every such module, whatever the order of the definition and
\* the call and whatever scope the call sits in.
ArityMismatchReturnsError ==
    parsed.statements \in ArityMismatched =>
        /\ ~AnalysisOk
        /\ pc = "exited" => error # NoError

RECURSIVE HasInferenceRequired(_)
HasInferenceRequired(type_expr) ==
    CASE type_expr.k = "InferenceRequired" -> TRUE
      [] type_expr.k = "FunctionDefinition" ->
            \/ \E i \in DOMAIN type_expr.parameters :
                  HasInferenceRequired(type_expr.parameters[i])
            \/ HasInferenceRequired(type_expr.return_type)
      [] type_expr.k = "FunctionCall" ->
            \/ \E i \in DOMAIN type_expr.args : HasInferenceRequired(type_expr.args[i])
            \/ HasInferenceRequired(type_expr.return_type)
      [] OTHER -> FALSE

\* C11: after analyze_scope_tree succeeds, the type_expr of every value
\* symbol of every scope is fully ground (no InferenceRequired anywhere,
\* inside FunctionDefinition parameters and return type included) or is an
\* InferenceRequired whose variable resolves to itself.
AnalysedSymbolsGround ==
    AnalysisOk =>
        \A s \in ScopeIndexes(tree) :
            \A name \in DOMAIN ScopeAt(tree, s).value_symbols :
                LET type_expr == ScopeAt(tree, s).value_symbols[name].type_expr
                IN  \/ ~HasInferenceRequired(type_expr)
                    \/ /\ type_expr.k = "InferenceRequired"
                       /\ ResolveType(tree, type_expr, s) = type_expr

\* C14: unification terminates: for every constraint list the collector
\* produces from a program that binds and collects, programs in which a
\* parameter is applied to itself more than once included, unify returns
\* (success or an error) instead of recursing until the stack overflows.
UnificationTerminates ==
    ~(last.op = "unify" /\ tree.panic = "stack overflow")

-----------------------------------------------------------------------------
(* Properties of the compiler (CompileSpec).                               *)

\* the modules that module m imports: every module of every imported name
ImportedBy(m) ==
    IF ModuleAt(m).parser = ParserError THEN {}
    ELSE UNION {{FindModulesByName(Join(import.package_name))[i] :
                    i \in DOMAIN FindModulesByName(Join(import.package_name))} :
                   import \in {ModuleAt(m).parser.imports[j] :
                                  j \in DOMAIN ModuleAt(m).parser.imports}}
\* the modules reached from the modules of a set through at most n imports
RECURSIVE ImportClosure(_, _)
ImportClosure(modules, n) ==
    IF n = 0 THEN modules
    ELSE ImportClosure(modules \cup UNION {ImportedBy(m) : m \in modules}, n - 1)
\* module m imports itself, directly or through other modules
OnImportCycle(m) == m \in ImportClosure(ImportedBy(m), Len(module_map))
HasImportCycle == \E m \in ModuleIndexes : OnImportCycle(m)

\* C16: when the module graph contains an import cycle, process_module on
\* the entry module returns: the run does not end with the recursion of
\* process_module exhausting the stack.
CyclicImportsReturn ==
    HasImportCycle =>
        ~(pc = "exited" /\ last.op = "process_module"
          /\ tree.panic = "stack overflow" /\ exit_code = AbortExitCode)

\* C17: a module whose program field is populated is not processed again:
\* the pipeline of process_module (bind, analyze, emit) only ever runs on a
\* module whose program is still None, so no module gets a second program
\* scope.
ModulesProcessedOnce ==
    [][ProcessModule => ModuleAt(Top.module_index).program = NoProgram]_vars

\* C18: imports are processed before dependents: at the moment the binding
\* of a module begins, every module of every name it imports has completed
\* its own pipeline: its program field is populated and its artifact is in
\* ./build.  (On an import cycle the binding of a module of the cycle never
\* begins.)
ImportsProcessedFirst ==
    PipelinePending =>
        \A m \in ImportedBy(Top.module_index) :
            /\ ModuleAt(m).program # NoProgram
            /\ GoFilename(ModuleAt(m).module_name) \in build

\* C18 witness: the binding of the entry module is about to begin after the
\* activations for two imported modules have returned
ImportsDoneBeforeBinding ==
    /\ PipelinePending
    /\ Len(stack) = 1
    /\ Cardinality(ImportedBy(Top.module_index)) = 2
    /\ \A m \in ImportedBy(Top.module_index) : ModuleAt(m).program # NoProgram

\* the pipeline of module B, the caller of A.greet, has run and ended the run
CallerProcessed ==
    /\ Len(module_map) = 2
    /\ "greet" \in ModuleAt(0).exports
    /\ pc = "exited"
    /\ last.op = "process_module"
    /\ program # Idle
    /\ program.imports # <<>>
\* the type of the constant r of module B
CallResultType == FindValueSymbol(tree, program.scope, "r").symbol.type_expr

\* C19: when module B imports module A and calls A.greet, exported with
\* type String -> Void (annotated or inferred), through dot access, the
\* analysis of B succeeds and the constant bound to the call result has type
\* Void after apply_substitutions.
ImportedCallResultIsVoid ==
    CallerProcessed => (ModuleAt(1).program # NoProgram /\ CallResultType = TVoid)

\* C20: the exit code of the process is 0 exactly when the compilation
\* succeeded: a run that ends on a failure (a parse error, an unknown import,
\* a failure of unify) ends with a nonzero exit code.
ExitCodeZeroIffSuccess ==
    pc = "exited" => (exit_code = 0 <=> last.ok)

\* C23: process_module on a module that imports a name no module declares
\* returns the unknown-import error before it binds the module: the scope
\* tree gets no program scope for it, its program field stays unset and no
\* artifact is written for it.
UnknownImportBeforeBinding ==
    [][UnknownImport =>
          /\ ~last'.ok /\ pc' = "exited"
          /\ tree' = tree
          /\ module_map' = module_map
          /\ ModuleAt(Top.module_index).program = NoProgram
          /\ build' = build
          /\ GoFilename(ModuleAt(Top.module_index).module_name) \notin build']_vars

\* C23 witness: the run has ended on the unknown second import of a module
\* whose first import was compiled
UnknownImportReported ==
    /\ pc = "exited"
    /\ last.op = "find_modules_by_name" /\ ~last.ok
    /\ GoFilename("B") \in build
    /\ ModuleAt(0).program = NoProgram

-----------------------------------------------------------------------------
(* Properties of the binder and the collector (PipeSpec).                  *)

\* the type variables among the types of a sequence
TypeVarsOf(types) ==
    {Join(types[i].id) : i \in {j \in DOMAIN types : types[j].k = "InferenceRequired"}}

\* what C24 says of one bound function fn met in the scope outer
FunctionBoundIn(t, outer, fn) ==
    /\ HasScope(t, fn.scope)
    /\ ScopeAt(t, fn.scope).parent = outer
    /\ Cardinality({i \in DOMAIN ScopeAt(t, outer).children :
                       ScopeAt(t, outer).children[i] = fn.scope}) = 1
    /\ \A i \in DOMAIN fn.parameters :
          /\ fn.parameters[i].identifier \in DOMAIN ScopeAt(t, fn.scope).value_symbols
          /\ ScopeAt(t, fn.scope).value_symbols[fn.parameters[i].identifier].type_expr
                = fn.parameters[i].type_expr
    /\ \A name \in TypeVarsOf([i \in DOMAIN fn.parameters |->
                                  fn.parameters[i].type_expr] \o <<fn.return_type>>) :
          /\ name \in DOMAIN ScopeAt(t, outer).type_symbols
          /\ name \notin DOMAIN ScopeAt(t, fn.scope).type_symbols
    /\ fn.body.k = "BlockExpression" => ScopeAt(t, fn.body.scope).parent = fn.scope
    /\ fn.identifier \in DOMAIN ScopeAt(t, outer).type_symbols
    /\ ScopeAt(t, outer).type_symbols[fn.identifier].type_expr
          = FunctionDefinition(<<fn.identifier>>,
                               [i \in DOMAIN fn.parameters |->
                                   fn.parameters[i].type_expr],
                               fn.return_type)

\* every function of a bound expression, with the scope it is met in
RECURSIVE FunctionsBoundIn(_, _, _)
FunctionsBoundIn(t, outer, expr) ==
    CASE expr.k = "FunctionDefinition" ->
           /\ FunctionBoundIn(t, outer, expr)
           /\ FunctionsBoundIn(t, expr.scope, expr.body)
      [] expr.k = "BlockExpression" ->
           \A i \in DOMAIN expr.statements :
              FunctionsBoundIn(t, expr.scope,
                               IF expr.statements[i].k = "ConstDec"
                               THEN expr.statements[i].value
                               ELSE expr.statements[i].expr)
      [] expr.k = "FunctionCall" ->
           /\ FunctionsBoundIn(t, outer, expr.callee)
           /\ \A i \in DOMAIN expr.args : FunctionsBoundIn(t, outer, expr.args[i])
      [] expr.k = "Binary" ->
           FunctionsBoundIn(t, outer, expr.left) /\ FunctionsBoundIn(t, outer, expr.right)
      [] OTHER -> TRUE

\* C24: binding a FunctionDef in an outer scope S opens one child scope F of
\* S, installs every parameter as a value symbol of F, installs the type
\* variables made for the parameters and the return type as type symbols of
\* S and not of F, binds the body in F, and installs the FunctionDefinition
\* type symbol under the name of the function in S.
FunctionBoundInOuterScope ==
    pc = "bound" =>
        \A i \in DOMAIN program.statements :
            FunctionsBoundIn(tree, program.scope,
                             IF program.statements[i].k = "ConstDec"
                             THEN program.statements[i].value
                             ELSE program.statements[i].expr)

\* C24 witness: a function with an inferred parameter has been bound inside
\* the block body of another function
NestedFunctionBound ==
    /\ pc = "bound"
    /\ Len(tree.scopes) = 5
    /\ "a" \in DOMAIN ScopeAt(tree, 4).value_symbols
    /\ ScopeAt(tree, 4).parent = 3

\* the annotations a parsed expression leaves out: those of constants, of
\* parameters and of return types
RECURSIVE MissingAnnotations(_)
RECURSIVE MissingInAll(_)
MissingInAll(nodes) ==
    IF nodes = <<>> THEN 0
    ELSE MissingAnnotations(Head(nodes)) + MissingInAll(Tail(nodes))
MissingAnnotations(node) ==
    CASE node.k = "ConstDec" ->
           (IF node.type_annotation = NoType THEN 1 ELSE 0)
               + MissingAnnotations(node.value)
      [] node.k \in {"Expr", "Return"} -> MissingAnnotations(node.expr)
      [] node.k = "FunctionDefinition" ->
           Cardinality({i \in DOMAIN node.parameters :
                           node.parameters[i].type_expr = NoType})
               + (IF node.return_type = NoType THEN 1 ELSE 0)
               + MissingAnnotations(node.body)
      [] node.k = "BlockExpression" -> MissingInAll(node.statements)
      [] node.k = "FunctionCall" ->
           MissingAnnotations(node.callee) + MissingInAll(node.args)
      [] node.k = "Binary" ->
           MissingAnnotations(node.left) + MissingAnnotations(node.right)
      [] OTHER -> 0

\* C25: the binder makes a fresh type variable only where an annotation is
\* missing: after bind_program the type-variable counter has moved by the
\* number of missing annotations of the module, so an annotated constant,
\* parameter or return type costs no type variable.
TypeVarsOnlyForMissingAnnotations ==
    pc = "bound" => tree.next_type_var = MissingInAll(parsed.statements)

-----------------------------------------------------------------------------
(* Properties of the collector and of imports (CompileSpec).               *)

\* the constraints of a list that carry a type as the return component of a
\* FunctionCall on the left or of a FunctionDefinition on the right
CallConstraints(constraint_list, return_type) ==
    {i \in DOMAIN constraint_list :
        \/ /\ constraint_list[i].lhs.k = "FunctionCall"
           /\ constraint_list[i].lhs.return_type = return_type
        \/ /\ constraint_list[i].rhs.k = "FunctionDefinition"
           /\ constraint_list[i].rhs.return_type = return_type}

\* the types of the arguments of a call, none of which is a call itself
ArgumentTypes(t, args, parent_scope) ==
    [i \in DOMAIN args |-> CollectExpr(t, <<>>, args[i], parent_scope).type_expr]

\* what C26 says of the constraint c of a call: its shape, by what the type
\* of the callee resolves to
CallConstraintShape(c, callee, r_callee, fresh, arg_types, parent_scope) ==
    /\ c.scope_index = parent_scope
    /\ IF r_callee.k \in {"FunctionDefinition", "FunctionCall"}
       THEN /\ c.lhs = FunctionCall(arg_types, fresh, callee.type_expr)
            /\ c.rhs = r_callee
       ELSE /\ r_callee.k \in {"TypeRef", "InferenceRequired"}
            /\ c.lhs = r_callee
            /\ c.rhs = FunctionDefinition(r_callee.id, arg_types, fresh)

\* what C26 says of collecting the call: before is the collector in front of
\* the call, callee the collected callee, result the collected call, and
\* emitted the constraints the module ends up with
CallCollected(before, callee, result, call, parent_scope, emitted) ==
    ~Panicked(result.tree) =>
        /\ result.type_expr.k = "InferenceRequired"
        /\ \A s \in ScopeIndexes(before.tree) :
              Join(result.type_expr.id) \notin DOMAIN ScopeAt(before.tree, s).type_symbols
        /\ Join(result.type_expr.id)
              \in DOMAIN ScopeAt(result.tree, parent_scope).type_symbols
        /\ Len(result.constraints) = Len(before.constraints) + 1
        /\ CallConstraints(result.constraints, result.type_expr)
              = {Len(result.constraints)}
        /\ CallConstraintShape(
               result.constraints[Len(result.constraints)], callee,
               ResolveType(callee.tree, callee.type_expr, parent_scope),
               result.type_expr,
               ArgumentTypes(before.tree, call.args, parent_scope), parent_scope)
        /\ \E i \in DOMAIN emitted :
              emitted[i] = result.constraints[Len(result.constraints)]

CallCollectedAfter(before, call, parent_scope, emitted) ==
    CallCollected(before,
                  CollectExpr(before.tree, before.constraints, call.callee, parent_scope),
                  CollectExpr(before.tree, before.constraints, call, parent_scope),
                  call, parent_scope, emitted)

\* the top-level constants of a bound module that are bound to a call
CallStatements(bound_program) ==
    {i \in DOMAIN bound_program.statements :
        /\ bound_program.statements[i].k = "ConstDec"
        /\ bound_program.statements[i].value.k = "FunctionCall"}

CallsCollectedIn(bound, emitted) ==
    ~Panicked(bound.tree) =>
        \A i \in CallStatements(bound.node) :
            CallCollectedAfter(
                CollectTopStatements(bound.tree, <<>>,
                                     SubSeq(bound.node.statements, 1, i - 1),
                                     bound.node.scope),
                bound.node.statements[i].value, bound.node.scope, emitted)

\* C26: collecting a FunctionCall in the scope P returns a type variable
\* freshly created in P and emits exactly one call constraint, with
\* scope_index P and that variable as its return component:
\* FunctionCall{args, fresh, callee} = r_callee when the type of the callee
\* resolves to a FunctionDefinition or FunctionCall, and
\* r_callee = FunctionDefinition{id, argument types, fresh} when it resolves
\* to a TypeRef or InferenceRequired(id).
CallConstraintCollected ==
    [][ProcessModule => CallsCollectedIn(BindProgram(tree, Top.program), constraints')]_vars

\* C26 witness: a module has been collected whose call of an imported
\* function gave a FunctionCall constraint against the FunctionDefinition of
\* the callee
CallOfDefinitionCollected ==
    /\ last.op = "process_module"
    /\ constraints # <<>>
    /\ constraints[1].lhs.k = "FunctionCall"
    /\ constraints[1].rhs.k = "FunctionDefinition"

\* the modules of a name that export a member
Exporting(module_name, member_name) ==
    {m \in ModuleIndexes :
        /\ ModuleAt(m).module_name = module_name
        /\ member_name \in ModuleAt(m).exports}

\* what C27 says of collecting the dot access dot in front of which the
\* collector is before: callee_type is the resolved type of its callee,
\* result the collected dot access, next the scope tree the module ends with
DotAccessPublic(before, callee_type, result, dot, next) ==
    callee_type.k = "ImportRef" =>
        /\ ~Panicked(result.tree) =>
              \E m \in Exporting(callee_type.name, dot.member_identifier) :
                  /\ ModuleAt(m).program # NoProgram
                  /\ dot.member_identifier
                        \in DOMAIN ScopeAt(before.tree,
                                           ModuleAt(m).program.scope).value_symbols
                  /\ result.type_expr
                        = ScopeAt(before.tree, ModuleAt(m).program.scope)
                              .value_symbols[dot.member_identifier].type_expr
        /\ Exporting(callee_type.name, dot.member_identifier) = {} =>
              (Panicked(result.tree) /\ Panicked(next))

DotAccessPublicAfter(before, dot, parent_scope, next) ==
    DotAccessPublic(
        before,
        ResolveType(before.tree,
                    CollectExpr(before.tree, before.constraints, dot.callee,
                                parent_scope).type_expr,
                    parent_scope),
        CollectExpr(before.tree, before.constraints, dot, parent_scope),
        dot, next)

\* the top-level constants of a bound module that are bound to a call
\* through dot access
DotCallStatements(bound_program) ==
    {i \in CallStatements(bound_program) :
        bound_program.statements[i].value.callee.k = "DotCall"}

DotAccessesPublicIn(bound, next) ==
    ~Panicked(bound.tree) =>
        \A i \in DotCallStatements(bound.node) :
            DotAccessPublicAfter(
                CollectTopStatements(bound.tree, <<>>,
                                     SubSeq(bound.node.statements, 1, i - 1),
                                     bound.node.scope),
                bound.node.statements[i].value.callee, bound.node.scope, next)

\* C27: dot access on an import exposes only public members: collecting
\* DotCall(callee, m) with a callee that resolves to ImportRef(name, ..)
\* yields a type only if a module declaring name exports m, the type is the
\* one stored for m in the program scope of that module, and a member that
\* is not exported is never resolved.
ImportMembersPublic ==
    [][ProcessModule => DotAccessesPublicIn(BindProgram(tree, Top.program), tree')]_vars

\* C27 witness: the collector has refused A.greet, which module A defines
\* and does not export
HiddenMemberRefused ==
    /\ pc = "exited"
    /\ tree.panic = "can resolve member of module"
    /\ "greet" \notin ModuleAt(0).exports
    /\ ModuleAt(0).program # NoProgram
    /\ "greet" \in DOMAIN ScopeAt(tree, ModuleAt(0).program.scope).value_symbols

Aux1 ==
    [][ProcessModule =>
        LET bound == BindProgram(tree, Top.program) IN
        ~Panicked(bound.tree) =>
          \A i \in DotCallStatements(bound.node) :
            Panicked(CollectExpr(bound.tree, <<>>, bound.node.statements[i].value.callee, bound.node.scope).tree)]_vars

\* the symbols of scope s that hold an inference variable
HoldersOfVariables(t, s) ==
    {sym \in {ScopeAt(t, s).value_symbols[n] : n \in DOMAIN ScopeAt(t, s).value_symbols}
             \cup {ScopeAt(t, s).type_symbols[n] : n \in DOMAIN ScopeAt(t, s).type_symbols} :
        sym.type_expr.k = "InferenceRequired"}

\* C28: in every state reached by binding, collecting and unifying modules,
\* each value symbol and type symbol whose type_expr is
\* InferenceRequired(Some(id)) has an id that find_type_symbol resolves
\* starting from the scope that owns the symbol, variables of nested block
\* scopes and of other modules' program scopes included.
InferenceVariablesResolvable ==
    \A s \in ScopeIndexes(tree) :
        \A sym \in HoldersOfVariables(tree, s) :
            FindTypeSymbol(tree, s, sym.type_expr.id).found

\* C29: the missing-key fatal error of update_type_symbol is unreachable
\* during unification: whenever unify binds an inference variable of a
\* constraint collected from a program that binds and collects
\* successfully, the variable has a type symbol in the constraint's scope
\* or in an ancestor of it.
UpdateTypeSymbolFindsKey ==
    tree.panic # "got to root scope without finding symbol to update"

\* the names through which the top-level calls of a bound module reach a
\* member by dot access
DotCallees(bound_program) ==
    {bound_program.statements[i].value.callee.callee.name :
        i \in {j \in DotCallStatements(bound_program) :
                  bound_program.statements[j].value.callee.callee.k = "ValueReference"}}

\* the names of DotCallees that the binder made the value symbol of an import
ImportReferences(t, bound_program) ==
    {name \in DotCallees(bound_program) :
        LET value_symbol == FindValueSymbol(t, bound_program.scope, name)
        IN  /\ value_symbol.found
            /\ value_symbol.symbol.type_expr.k = "ImportRef"}

\* what C30 says of a module whose pipeline ends with outcome
ImportNamesAgree(outcome) ==
    outcome.stored =>
        /\ ImportReferences(outcome.tree, outcome.program)
              \subseteq ImportMapKeys(outcome.program.imports)
        /\ outcome.panic # "go package name"

\* C30: the binder and the emitter agree on the name under which an import
\* is referenced: a ValueReference that the binder and the collector resolve
\* to the ImportRef value symbol of an import, aliased or not, is found by
\* the emitter in its import map, and a module that type-checks while using
\* an aliased import is emitted without failure.
ImportReferencesEmitted ==
    [][ProcessModule => ImportNamesAgree(ModulePipeline(tree, Top.program))]_vars

====
